---- MODULE Spec2Model ----
(***************************************************************************)
(* Patient-journey API: access scoping (app/utils/access_control.py), the  *)
(* patient routes (app/routes/patients.py, app/services/patient_service.py)*)
(* and the patient-form versioning store (app/models/patient.py,           *)
(* app/routes/patient_forms.py), the audit trail                           *)
(* (app/services/audit_service.py) and facility scoping                    *)
(* (app/routes/facilities.py).                                             *)
(*                                                                         *)
(* Table audit_logs is append-only and no handler modelled here reads it:  *)
(* audit_logs holds the rows the last request added.                       *)
(*                                                                         *)
(* Id columns are serial integers starting at 1; NULL (Python None) of an  *)
(* id column is written 0, so Python truthiness of an id is "# NULL".      *)
(***************************************************************************)
EXTENDS Integers, Sequences, FiniteSets, TLC

VARIABLES
    patients,       \* table patients: set of rows
    next_patient_pk,\* next primary key of patients
    patient_forms,  \* table patient_forms: rows in insertion order
    next_form_pk,   \* next primary key of patient_forms
    now,            \* value datetime.utcnow() returns
    resp,           \* outcome of the last request
    audit_logs,     \* rows the last request added to table audit_logs
    session,        \* db.session: pending objects, not yet committed
    facilities,     \* table facilities: set of rows
    home_health,    \* table home_health: ids of the rows
    home_health_hospitals, \* junction table: <<home_health_id, hospital_id>>
    roles,          \* table roles: set of rows
    users,          \* table users: the rows create_user and init_db added
    _challenge_store, \* webauthn_service._challenge_store: the entries
    in_flight       \* form creations between their read and their commit

org_vars == <<facilities, home_health, home_health_hospitals>>

\* the state the patient, form and facility routes never write
side_vars == <<roles, users, _challenge_store, in_flight>>

vars == <<patients, next_patient_pk, patient_forms, next_form_pk, now, resp,
          audit_logs, session, org_vars, side_vars>>

\* ------------------------------------------------------------------ bounds
MaxFacility == 2
MaxHomeHealth == 2
MaxPatients == 1     \* patients rows created
MaxFormPatients == 2 \* patients of the form store
MaxFormPk == 3      \* patient_forms primary keys handed out
MaxClock == 1       \* readings of the clock
MaxBatch == 2       \* items of one forms array
MaxHospital == 2    \* hospitals rows

\* --------------------------------------------------------------- constants
NULL == 0
INTEGER_MAX == 2147483647

Roles == {"super_admin", "admin", "clinician", "case_manager", "guest"}

FacilityIds == 1..MaxFacility
HomeHealthIds == 1..MaxHomeHealth

\* A users row as the access checks read it (role_name, facility_id,
\* home_health_id); "guest" stands for any role name outside the four seeded.
Users == [role_name : Roles,
          facility_id : {NULL} \cup FacilityIds,
          home_health_id : {NULL} \cup HomeHealthIds]

\* ------------------------------------------------- access_control.py

\* Patient.query: the rows of the patients table
AllPatients == patients

filter_patients_by_access_nullmatch(query, current_user) ==
    LET role_name == current_user.role_name IN
    IF role_name = "case_manager"
    THEN {p \in query : p.facility_id = current_user.facility_id}
    ELSE IF role_name \in {"super_admin", "admin", "clinician"}
    THEN IF role_name = "super_admin" /\ current_user.home_health_id = NULL
         THEN query
         ELSE {p \in query : p.home_health_id = current_user.home_health_id}
    ELSE {}

filter_patients_by_access(query, current_user) ==
    LET role_name == current_user.role_name IN
    IF role_name = "case_manager"
    THEN IF current_user.facility_id # NULL
         THEN {p \in query : p.facility_id # NULL
                             /\ p.facility_id = current_user.facility_id}
         ELSE {}
    ELSE IF role_name \in {"super_admin", "admin", "clinician"}
    THEN IF role_name = "super_admin" /\ current_user.home_health_id = NULL
         THEN query
         ELSE IF current_user.home_health_id # NULL
         THEN {p \in query : p.home_health_id # NULL
                             /\ p.home_health_id = current_user.home_health_id}
         ELSE {}
    ELSE {}

can_access_patient(current_user, patient) ==
    LET role_name == current_user.role_name IN
    IF role_name = "case_manager"
    THEN patient.facility_id = current_user.facility_id
    ELSE IF role_name \in {"super_admin", "admin", "clinician"}
    THEN IF role_name = "super_admin" /\ current_user.home_health_id = NULL
         THEN TRUE
         ELSE patient.home_health_id = current_user.home_health_id
    ELSE FALSE

can_modify_patient_anyrole(current_user, patient) ==
    LET role_name == current_user.role_name IN
    IF role_name = "super_admin" /\ current_user.home_health_id = NULL
    THEN TRUE
    ELSE patient.home_health_id = current_user.home_health_id

can_modify_patient(current_user, patient) ==
    LET role_name == current_user.role_name IN
    IF role_name = "case_manager"
    THEN FALSE
    ELSE IF role_name = "super_admin"
    THEN IF current_user.home_health_id = NULL
         THEN TRUE
         ELSE patient.home_health_id = current_user.home_health_id
    ELSE IF role_name = "admin"
    THEN patient.home_health_id = current_user.home_health_id
    ELSE IF role_name = "clinician"
    THEN patient.home_health_id = current_user.home_health_id
    ELSE FALSE

\* a check that lets every role create
can_create_patient_anyrole(current_user) == TRUE

can_create_patient(current_user) ==
    current_user.role_name \in {"super_admin", "admin", "clinician"}

can_delete_patient(current_user, patient) ==
    LET role_name == current_user.role_name IN
    IF role_name = "super_admin"
    THEN IF current_user.home_health_id = NULL
         THEN TRUE
         ELSE patient.home_health_id = current_user.home_health_id
    ELSE IF role_name = "admin"
    THEN patient.home_health_id = current_user.home_health_id
    ELSE FALSE

\* ------------------------------------------------- form ids as submitted
\* A submitted formId is absent (also null, 0 or ""), a JSON integer, or a
\* string: a prefix without digits followed by its trailing digit run.
\* Digit runs are kept as sequences so that values beyond 32 bits exist.
Digit == 0..9
RawNone == [kind |-> "none", neg |-> FALSE, pre |-> "", digits |-> <<>>]
RawInt(neg, ds) == [kind |-> "int", neg |-> neg, pre |-> "", digits |-> ds]
RawStr(pre, ds) == [kind |-> "str", neg |-> FALSE, pre |-> pre, digits |-> ds]

INTEGER_MAX_digits == <<2, 1, 4, 7, 4, 8, 3, 6, 4, 7>>
INTEGER_MIN_digits == <<2, 1, 4, 7, 4, 8, 3, 6, 4, 8>>

RECURSIVE StripZeros(_)
StripZeros(ds) ==
    IF Len(ds) > 1 /\ Head(ds) = 0 THEN StripZeros(Tail(ds)) ELSE ds

RECURSIVE LexLeq(_, _)
LexLeq(a, b) ==
    IF a = <<>> THEN TRUE
    ELSE IF Head(a) < Head(b) THEN TRUE
    ELSE IF Head(a) > Head(b) THEN FALSE
    ELSE LexLeq(Tail(a), Tail(b))

\* a <= b for the numbers two digit runs denote
DigitsLeq(a, b) ==
    LET x == StripZeros(a)  y == StripZeros(b) IN
    IF Len(x) # Len(y) THEN Len(x) < Len(y) ELSE LexLeq(x, y)

RECURSIVE DigitsValue(_, _)
DigitsValue(ds, acc) ==
    IF ds = <<>> THEN acc ELSE DigitsValue(Tail(ds), acc * 10 + Head(ds))

\* results of reading a form id
IdNone == [kind |-> "none", v |-> 0]
IdOk(n) == [kind |-> "ok", v |-> n]
IdOutOfRange == [kind |-> "out_of_range", v |-> 0]

RECURSIVE NegDigitsValue(_, _)
NegDigitsValue(ds, acc) ==
    IF ds = <<>> THEN acc ELSE NegDigitsValue(Tail(ds), acc * 10 - Head(ds))

\* int(x) of Python for a number given as sign and digit run, followed by
\* the range test of the caller: hi, "value > INTEGER_MAX gives None", is
\* made by every caller; lo, "value < -2147483648 gives None", by some.
Ranged(neg, ds, lo) ==
    IF neg
    THEN IF DigitsLeq(ds, INTEGER_MIN_digits) THEN IdOk(NegDigitsValue(ds, 0))
         ELSE IF lo THEN IdNone ELSE IdOutOfRange
    ELSE IF DigitsLeq(ds, INTEGER_MAX_digits) THEN IdOk(DigitsValue(ds, 0))
         ELSE IdNone

\* int(s) of Python accepts a string that is an optional sign and digits
IntParses(raw) == raw.kind = "str" /\ raw.pre \in {"", "-"} /\ raw.digits # <<>>
\* re.search(r'(\d+)$', s)
TrailingDigits(raw) == raw.kind = "str" /\ raw.digits # <<>>

\* _save_forms_to_table, lines 244-273: int(form_id) first, the trailing
\* digit run only when int() raises
save_form_id_int(raw) ==
    IF raw.kind = "none" THEN IdNone
    ELSE IF raw.kind = "int" THEN Ranged(raw.neg, raw.digits, TRUE)
    ELSE IF IntParses(raw) THEN Ranged(raw.pre = "-", raw.digits, TRUE)
    ELSE IF TrailingDigits(raw) THEN Ranged(FALSE, raw.digits, TRUE)
    ELSE IdNone

\* create_patient_form, lines 207-230: a string gives its trailing digit
\* run; any other value gives int(form_id), tested against INTEGER_MAX only
route_form_id_int(raw) ==
    IF raw.kind = "none" THEN IdNone
    ELSE IF raw.kind = "str"
    THEN IF TrailingDigits(raw) THEN Ranged(FALSE, raw.digits, TRUE)
         ELSE IdNone
    ELSE Ranged(raw.neg, raw.digits, FALSE)

\* update_patient, lines 414-435: the form id an item contributes to
\* form_ids_to_keep
keep_form_id_int(raw) ==
    IF raw.kind = "none" THEN IdNone
    ELSE IF raw.kind = "str"
    THEN IF TrailingDigits(raw) THEN Ranged(FALSE, raw.digits, TRUE)
         ELSE IdNone
    ELSE Ranged(raw.neg, raw.digits, TRUE)

\* ------------------------------------------------- patient_forms table
FormTypes == {"intake", "assessment"}
FormData == {"a", "b"}

Rows(table) == {table[i] : i \in 1..Len(table)}
RowsOfPatient(table, patient_id) == {r \in Rows(table) : r.patient_id = patient_id}

SetMax(S) == CHOOSE x \in S : \A y \in S : y <= x

\* max + 1 in 32-bit arithmetic: past INTEGER_MAX it wraps to -2147483648
next_form_id_wrapping(table, patient_id) ==
    LET ids == {r.form_id : r \in RowsOfPatient(table, patient_id)} IN
    IF ids = {} THEN [kind |-> "ok", v |-> 1]
    ELSE IF SetMax(ids) = INTEGER_MAX THEN [kind |-> "ok", v |-> -INTEGER_MAX - 1]
    ELSE [kind |-> "ok", v |-> SetMax(ids) + 1]

\* (max_form_id or 0) + 1 over the rows of the patient; an INTEGER column
\* cannot hold INTEGER_MAX + 1
next_form_id(table, patient_id) ==
    LET ids == {r.form_id : r \in RowsOfPatient(table, patient_id)} IN
    IF ids = {} THEN IdOk(1)
    ELSE IF SetMax(ids) = INTEGER_MAX THEN IdOutOfRange
    ELSE IdOk(SetMax(ids) + 1)

PatientForm(pk, form_id, patient_id, form_type, form_data, created_at) ==
    [id |-> pk, form_id |-> form_id, patient_id |-> patient_id,
     form_type |-> form_type, form_data |-> form_data, created_at |-> created_at]

\* a form item of a forms array; form_type "" is a missing type
item_type(item) == IF item.form_type = "" THEN "unknown" ELSE item.form_type

\* keys of forms_by_type in dict order: first occurrence of each type
RECURSIVE forms_by_type_keys(_)
forms_by_type_keys(items) ==
    IF items = <<>> THEN <<>>
    ELSE LET rest == forms_by_type_keys(SubSeq(items, 1, Len(items) - 1))
             ty == item_type(items[Len(items)])
         IN IF \E i \in 1..Len(rest) : rest[i] = ty THEN rest
            ELSE Append(rest, ty)

\* value of forms_by_type[ty]: the first item of the type (a dict that
\* would keep the first write)
forms_by_type_first(items, ty) ==
    LET idx == {i \in 1..Len(items) : item_type(items[i]) = ty}
        first == CHOOSE i \in idx : \A j \in idx : i <= j
    IN [form_id |-> save_form_id_int(items[first].form_id), form_type |-> ty,
        form_data |-> items[first].form_data]

\* value of forms_by_type[ty]: the last item of the type
forms_by_type(items, ty) ==
    LET idx == {i \in 1..Len(items) : item_type(items[i]) = ty}
        last == SetMax(idx)
    IN [form_id |-> save_form_id_int(items[last].form_id), form_type |-> ty,
        form_data |-> items[last].form_data]

\* the insert loop of _save_forms_to_table, lines 283-301, over the keys
\* from position k on; st = [ok, table, pk]
RECURSIVE save_loop(_, _, _, _, _, _)
save_loop(st, patient_id, items, keys, k, t) ==
    IF k > Len(keys) \/ ~st.ok THEN st
    ELSE LET info == forms_by_type(items, keys[k])
             fid == IF info.form_id.kind = "none"
                    THEN next_form_id(st.table, patient_id)
                    ELSE info.form_id
         IN IF fid.kind # "ok" THEN [st EXCEPT !.ok = FALSE]
            ELSE save_loop(
                   [ok |-> TRUE,
                    table |-> Append(st.table,
                        PatientForm(st.pk, fid.v, patient_id, info.form_type,
                                    info.form_data, t)),
                    pk |-> st.pk + 1],
                   patient_id, items, keys, k + 1, t)

_save_forms_to_table(table, pk, patient_id, items, t) ==
    save_loop([ok |-> TRUE, table |-> table, pk |-> pk], patient_id, items,
              forms_by_type_keys(items), 1, t)

\* Patient.get_latest_forms: the rows that carry the greatest created_at of
\* their form_id among the rows of the patient
get_latest_forms_rows(table, patient_id) ==
    {r \in RowsOfPatient(table, patient_id) :
        \A q \in RowsOfPatient(table, patient_id) :
            q.form_id = r.form_id => q.created_at <= r.created_at}

\* sequences that list the rows of S once each by created_at descending, as
\* ORDER BY created_at DESC may return them, given by primary key
RECURSIVE OrderedDesc(_)
OrderedDesc(S) ==
    IF S = {} THEN {<<>>}
    ELSE UNION {{<<r.id>> \o tl : tl \in OrderedDesc(S \ {r})} :
                r \in {x \in S : \A y \in S : y.created_at <= x.created_at}}

\* ------------------------------------------------- requests and responses
AnyUser == [role_name |-> "guest", facility_id |-> NULL, home_health_id |-> NULL]

\* str(e) of the exceptions the handlers meet, as far as the first words:
\* a value the INTEGER column rejects, a null facility_name, a keyword the
\* Patient constructor does not know
DataErrorText == "integer out of range"
NotNullErrorText == "null value in column \"facility_name\""
KeywordErrorText ==
    "'family_and_patient_aware' is an invalid keyword argument for Patient"
\* the 'error' of the 500 of create_patient_form
CreateFormErrorText ==
    "An error occurred while creating the patient form. Please try again."

\* log of a response: for a call of log_action, whether it raised, what
\* failed in it and the error_message it was given; empty for the rest
NoLog == <<>>

Resp(op, status, user, patient_id) ==
    [op |-> op, status |-> status, user |-> user, patient_id |-> patient_id,
     raw |-> RawNone, items |-> <<>>, replace |-> FALSE, form_id |-> 0,
     result |-> <<>>, log |-> NoLog, error |-> "", request |-> <<>>]

\* seed_roles: the predefined roles with their standard ids
predefined_roles ==
    <<[id |-> 1, name |-> "super_admin",
       description |->
           "Super Administrator with full system access and management"],
      [id |-> 2, name |-> "admin",
       description |-> "Administrator with full system access"],
      [id |-> 3, name |-> "clinician",
       description |-> "Clinical staff member"],
      [id |-> 4, name |-> "case_manager",
       description |->
           "Case manager responsible for patient coordination"]>>

\* the tables the role seed works on are not read by the patient, form and
\* facility routes (User.role_name falls back to the role column of the
\* user when no roles row is linked): they start empty
InitSide ==
    /\ roles = {}
    /\ users = {}
    /\ _challenge_store = {}
    /\ in_flight = {}

\* a facilities row as facility scoping reads it
Facility(pk, hospital_id) == [id |-> pk, hospital_id |-> hospital_id]

Patient(pk, facility_id, home_health_id) ==
    [id |-> pk, facility_id |-> facility_id, home_health_id |-> home_health_id]

PatientById(patient_id) == CHOOSE p \in patients : p.id = patient_id
PatientExists(patient_id) == \E p \in patients : p.id = patient_id

\* a request field holding an id: key absent, null, a value int() rejects,
\* or an integer
Absent == [kind |-> "absent", v |-> 0]
Null == [kind |-> "null", v |-> 0]
Junk == [kind |-> "junk", v |-> 0]
IntField(n) == [kind |-> "int", v |-> n]
\* facilityName: absent, empty, or the unique name of a facilities row,
\* given by the id Facility.get_or_create returns for it
EmptyName == [kind |-> "empty", v |-> 0]
Name(facility_id) == [kind |-> "name", v |-> facility_id]

\* validate_patient_data: data.valid stands for the checks of the fields
\* that are not modelled (names, dates, phone, booleans)
validate_patient_data(data, is_update) ==
    /\ data.valid
    /\ ~is_update => data.facilityName.kind = "name"
    /\ data.facility_id.kind # "junk"

\* int(value) guarded by "if value": None for null and for junk
field_int(field) == IF field.kind = "int" THEN field.v ELSE NULL

\* a delete that removes one row of D only
delete_rows_one(table, D) ==
    LET keep == IF D = {} THEN {} ELSE D \ {CHOOSE r \in D : TRUE}
    IN SelectSeq(table, LAMBDA r : r \notin D \/ r \in keep)

\* Query.delete(): the table without the rows of D
RECURSIVE delete_rows(_, _)
delete_rows(table, D) ==
    IF table = <<>> THEN <<>>
    ELSE IF Head(table) \in D THEN delete_rows(Tail(table), D)
    ELSE <<Head(table)>> \o delete_rows(Tail(table), D)

\* update_patient, lines 408-435: form_ids_to_keep
form_ids_to_keep(items) ==
    {keep_form_id_int(items[i].form_id).v :
        i \in {j \in 1..Len(items) : keep_form_id_int(items[j].form_id).kind = "ok"}}

\* update_patient, lines 437-446: the delete of the replace step
replace_delete_all(table, patient_id, items) ==
    delete_rows(table, RowsOfPatient(table, patient_id))

replace_delete(table, patient_id, items) ==
    LET keep == form_ids_to_keep(items) IN
    IF keep # {}
    THEN delete_rows(table, {r \in RowsOfPatient(table, patient_id) :
                                r.form_id \notin keep})
    ELSE delete_rows(table, RowsOfPatient(table, patient_id))

\* update_patient, lines 399-450: the 'forms' key; st = [ok, table, pk]
replace_forms(table, pk, patient_id, items, t) ==
    LET kept == replace_delete(table, patient_id, items) IN
    IF Len(items) > 0
    THEN _save_forms_to_table(kept, pk, patient_id, items, t)
    ELSE [ok |-> TRUE, table |-> kept, pk |-> pk]

\* ------------------------------------------------- routes/patients.py

\* GET /patients/
GetPatients(u) ==
    /\ resp' = [Resp("get_patients", 200, u, NULL) EXCEPT
                  !.result = {p.id : p \in filter_patients_by_access(AllPatients, u)}]
    /\ UNCHANGED <<patients, next_patient_pk, patient_forms, next_form_pk, now>>
    /\ audit_logs' = <<>>
    /\ UNCHANGED <<session, org_vars, side_vars>>

\* GET /patients/<patient_id>
GetPatient(u, patient_id) ==
    /\ resp' = IF ~PatientExists(patient_id)
               THEN Resp("get_patient", 404, u, patient_id)
               ELSE IF ~can_access_patient(u, PatientById(patient_id))
               THEN Resp("get_patient", 403, u, patient_id)
               ELSE Resp("get_patient", 200, u, patient_id)
    /\ UNCHANGED <<patients, next_patient_pk, patient_forms, next_form_pk, now>>
    /\ audit_logs' = <<>>
    /\ UNCHANGED <<session, org_vars, side_vars>>

HospitalIds == 1..MaxHospital

\* [h.id for h in home_health.hospitals]: the hospitals the junction table
\* links to the agency
hospital_ids(home_health_id) ==
    {l[2] : l \in {x \in home_health_hospitals : x[1] = home_health_id}}

\* hospitalName of a request: absent, empty, blanks only, or a name; v is
\* the id of the hospitals row of that name, above MaxHospital when no
\* hospital has the name
BlankName == [kind |-> "blank", v |-> 0]
HospitalName(h) == [kind |-> "name", v |-> h]

\* a resolution that takes the hospital_id of the request as it comes
_determine_hospital_id_unverified(user, patient_data) ==
    IF patient_data.hospital_id.kind = "int" THEN {patient_data.hospital_id.v}
    ELSE {NULL}

\* PatientService._determine_hospital_id: the values it may return.
\* hospitals[0] of the home health is the first row of a query without
\* ORDER BY: any of the linked hospitals.
_determine_hospital_id(user, patient_data) ==
    LET hospital_id == field_int(patient_data.hospital_id)
        hospitalName == patient_data.hospitalName
        facility == {f \in facilities : f.id = user.facility_id}
    IN IF hospital_id # NULL /\ hospital_id \in HospitalIds
       THEN {hospital_id}
       ELSE IF hospitalName.kind = "name" /\ hospitalName.v \in HospitalIds
       THEN {hospitalName.v}
       ELSE IF /\ user.facility_id # NULL
               /\ \E f \in facility : f.hospital_id # NULL
       THEN {f.hospital_id : f \in facility}
       ELSE IF /\ user.home_health_id # NULL
               /\ user.home_health_id \in home_health
               /\ hospital_ids(user.home_health_id) # {}
       THEN hospital_ids(user.home_health_id)
       ELSE {NULL}

\* a get_or_create that takes every hospital_id it is given
get_or_create_overwrite(table, name, hospital_id) ==
    {f \in table : f.id # name} \cup {Facility(name, hospital_id)}

\* Facility.get_or_create on the table: the row of the name is created
\* with the hospital_id, or its null hospital_id is filled in.  The name
\* is given by the id of its row.
get_or_create(table, name, hospital_id) ==
    LET facility == {f \in table : f.id = name}
    IN IF facility = {} THEN table \cup {Facility(name, hospital_id)}
       ELSE IF hospital_id # NULL /\ Facility(name, NULL) \in facility
       THEN (table \ facility) \cup {Facility(name, hospital_id)}
       ELSE table

\* home_health_id of the row POST /patients/ stores: the route fills the
\* key in when it is absent (line 307), the service reads it (lines
\* 144-149), the route sets the user's when the row has none (line 314)
created_home_health_id(u, data) ==
    LET field == IF data.home_health_id.kind = "absent" /\ u.home_health_id # NULL
                 THEN IntField(u.home_health_id)
                 ELSE data.home_health_id
        stored == field_int(field)
    IN IF stored = NULL /\ u.home_health_id # NULL
       THEN u.home_health_id ELSE stored

\* POST /patients/ ; raises: an exception inside the try block (a database
\* error, a keyword the Patient constructor rejects)
CreatePatient(u, data, raises) ==
    /\ next_patient_pk <= MaxPatients
    /\ IF ~can_create_patient(u)
       THEN /\ resp' = Resp("create_patient", 403, u, NULL)
            /\ UNCHANGED <<patients, next_patient_pk, patient_forms,
                           next_form_pk, facilities>>
       ELSE IF ~validate_patient_data(data, FALSE)
       THEN /\ resp' = Resp("create_patient", 400, u, NULL)
            /\ UNCHANGED <<patients, next_patient_pk, patient_forms,
                           next_form_pk, facilities>>
       ELSE \E hospital_id \in _determine_hospital_id(u, data) :
            LET pk == next_patient_pk
                facility_id == IF data.facilityName.kind = "name"
                               THEN data.facilityName.v
                               ELSE field_int(data.facility_id)
                saved == IF data.forms.present
                         THEN _save_forms_to_table(patient_forms, next_form_pk,
                                                   pk, data.forms.items, now)
                         ELSE [ok |-> TRUE, table |-> patient_forms,
                               pk |-> next_form_pk]
                request == <<data.hospital_id, data.hospitalName>>
            IN /\ saved.pk <= MaxFormPk + 1
               \* Facility.get_or_create commits before the patient is built
               /\ facilities' = IF data.facilityName.kind = "name"
                                THEN get_or_create(facilities,
                                         data.facilityName.v, hospital_id)
                                ELSE facilities
               /\ IF raises \/ ~saved.ok
                  THEN /\ resp' = [Resp("create_patient", 500, u, NULL) EXCEPT
                                     \* 'error': str(e)
                                     !.error = IF raises THEN KeywordErrorText
                                               ELSE DataErrorText,
                                     !.request = request]
                       /\ UNCHANGED <<patients, next_patient_pk, patient_forms,
                                      next_form_pk>>
                  ELSE /\ patients' = patients \cup
                            {Patient(pk, facility_id, created_home_health_id(u, data))}
                       /\ next_patient_pk' = pk + 1
                       /\ patient_forms' = saved.table
                       /\ next_form_pk' = saved.pk
                       /\ resp' = [Resp("create_patient", 201, u, pk) EXCEPT
                                     !.items = IF data.forms.present
                                               THEN data.forms.items ELSE <<>>,
                                     !.request = request]
    /\ UNCHANGED now
    /\ audit_logs' = <<>>
    /\ UNCHANGED <<session, home_health, home_health_hospitals, side_vars>>

\* the row PatientService.update_patient leaves, forms apart: facilityName
\* (lines 330-344), facility_id (381-389), home_health_id (390-398)
updated_patient(patient, data) ==
    LET facility_id ==
            IF data.facilityName.kind = "name" THEN data.facilityName.v
            ELSE IF data.facilityName.kind = "empty" THEN NULL
            ELSE IF data.facility_id.kind # "absent" THEN field_int(data.facility_id)
            ELSE patient.facility_id
        home_health_id ==
            IF data.home_health_id.kind # "absent" THEN field_int(data.home_health_id)
            ELSE patient.home_health_id
    IN Patient(patient.id, facility_id, home_health_id)

\* a rollback after which the work of the transaction is in the table
rollback_kept(committed, st) == st.table

\* db.session.rollback() of the route: the table as of the last commit; st
\* is what the transaction had done (rows deleted, rows added).  Nothing
\* commits between the delete of the replace step and the final commit.
rollback(committed, st) == committed

\* PUT /patients/<patient_id> ; an empty facilityName sets facility_name,
\* a NOT NULL column, to None and the commit fails
UpdatePatient(u, patient_id, data) ==
    /\ IF ~PatientExists(patient_id)
       THEN /\ resp' = Resp("update_patient", 404, u, patient_id)
            /\ UNCHANGED <<patients, patient_forms, next_form_pk>>
       ELSE IF ~can_modify_patient(u, PatientById(patient_id))
       THEN /\ resp' = Resp("update_patient", 403, u, patient_id)
            /\ UNCHANGED <<patients, patient_forms, next_form_pk>>
       ELSE IF ~validate_patient_data(data, TRUE)
       THEN /\ resp' = Resp("update_patient", 400, u, patient_id)
            /\ UNCHANGED <<patients, patient_forms, next_form_pk>>
       ELSE LET patient == PatientById(patient_id)
                saved == IF data.forms.present
                         THEN replace_forms(patient_forms, next_form_pk,
                                            patient_id, data.forms.items, now)
                         ELSE [ok |-> TRUE, table |-> patient_forms,
                               pk |-> next_form_pk]
            IN /\ saved.pk <= MaxFormPk + 1
               /\ IF data.facilityName.kind = "empty" \/ ~saved.ok
                  THEN /\ resp' = [Resp("update_patient", 500, u, patient_id)
                                     \* 'error': str(e)
                                     EXCEPT !.error =
                                       IF data.facilityName.kind = "empty"
                                       THEN NotNullErrorText
                                       ELSE DataErrorText,
                                     !.replace = data.forms.present,
                                     !.items = IF data.forms.present
                                               THEN data.forms.items ELSE <<>>]
                       /\ patient_forms' = rollback(patient_forms, saved)
                       /\ UNCHANGED <<patients, next_form_pk>>
                  ELSE /\ patients' = (patients \ {patient}) \cup
                                      {updated_patient(patient, data)}
                       /\ patient_forms' = saved.table
                       /\ next_form_pk' = saved.pk
                       /\ resp' = [Resp("update_patient", 200, u, patient_id) EXCEPT
                                     !.replace = data.forms.present,
                                     !.items = IF data.forms.present
                                               THEN data.forms.items ELSE <<>>]
    /\ UNCHANGED <<next_patient_pk, now>>
    /\ audit_logs' = <<>>
    /\ UNCHANGED <<session, org_vars, side_vars>>

\* DELETE /patients/<patient_id> ; the form_history relationship cascades
\* the delete to the forms of the patient
DeletePatient(u, patient_id) ==
    /\ IF ~PatientExists(patient_id)
       THEN /\ resp' = Resp("delete_patient", 404, u, patient_id)
            /\ UNCHANGED <<patients, patient_forms>>
       ELSE IF ~can_delete_patient(u, PatientById(patient_id))
       THEN /\ resp' = Resp("delete_patient", 403, u, patient_id)
            /\ UNCHANGED <<patients, patient_forms>>
       ELSE /\ patients' = patients \ {PatientById(patient_id)}
            /\ patient_forms' = delete_rows(patient_forms,
                                    RowsOfPatient(patient_forms, patient_id))
            /\ resp' = Resp("delete_patient", 200, u, patient_id)
    /\ UNCHANGED <<next_patient_pk, next_form_pk, now>>
    /\ audit_logs' = <<>>
    /\ UNCHANGED <<session, org_vars, side_vars>>

\* ------------------------------------------------- the patient routes
NoForms == [present |-> FALSE, items |-> <<>>]

PatientData(valid, facilityName, facility_id, home_health_id, forms) ==
    [valid |-> valid, facilityName |-> facilityName, facility_id |-> facility_id,
     home_health_id |-> home_health_id, forms |-> forms,
     hospital_id |-> Absent, hospitalName |-> Absent]

\* the callers of the routes: every role, case managers with each facility
\* affiliation, the tenant roles with each home-health affiliation
Callers ==
    {u \in Users : IF u.role_name = "case_manager" THEN u.home_health_id = NULL
                   ELSE IF u.role_name = "guest"
                   THEN u.facility_id = NULL /\ u.home_health_id = NULL
                   ELSE u.facility_id = NULL}

HomeHealthFields == {Absent, Null, Junk} \cup {IntField(h) : h \in HomeHealthIds}

\* bodies of POST /patients/
CreateBodies ==
    {PatientData(FALSE, Name(1), Absent, Absent, NoForms)}
    \cup {PatientData(TRUE, Absent, Absent, Absent, NoForms)}
    \cup {PatientData(TRUE, Name(f), Absent, h, NoForms) :
            f \in FacilityIds, h \in HomeHealthFields}

\* bodies of PUT /patients/<id>
UpdateBodies ==
    {PatientData(FALSE, Absent, Absent, Absent, NoForms),
     PatientData(TRUE, Absent, Junk, Absent, NoForms),
     PatientData(TRUE, Absent, Null, Absent, NoForms),
     PatientData(TRUE, EmptyName, Absent, Absent, NoForms)}
    \cup {PatientData(TRUE, Name(f), Absent, Absent, NoForms) : f \in FacilityIds}
    \cup {PatientData(TRUE, Absent, IntField(f), Absent, NoForms) : f \in FacilityIds}
    \cup {PatientData(TRUE, Absent, Absent, h, NoForms) :
            h \in HomeHealthFields \ {Absent}}

PatientIds == 1..MaxPatients

Init ==
    /\ patients = {}
    /\ next_patient_pk = 1
    /\ patient_forms = <<>>
    /\ next_form_pk = 1
    /\ now = 0
    /\ resp = Resp("none", 0, AnyUser, NULL)
    /\ audit_logs = <<>>
    /\ session = <<>>
    /\ facilities = {Facility(i, NULL) : i \in FacilityIds}
    /\ home_health = HomeHealthIds
    /\ home_health_hospitals = {}
    /\ InitSide

Next ==
    \/ \E u \in Callers : GetPatients(u)
    \/ \E u \in Callers, patient_id \in PatientIds : GetPatient(u, patient_id)
    \/ \E u \in Callers, data \in CreateBodies, raises \in BOOLEAN :
          CreatePatient(u, data, raises)
    \/ \E u \in Callers, patient_id \in PatientIds, data \in UpdateBodies :
          UpdatePatient(u, patient_id, data)
    \/ \E u \in Callers, patient_id \in PatientIds : DeletePatient(u, patient_id)

Spec == Init /\ [][Next]_vars

\* ------------------------------------------------- access scoping claims
TenantRoles == {"super_admin", "admin", "clinician"}

\* C1: for every user U and patient P, can_access_patient(U, P) is true
\* if and only if P is among the rows filter_patients_by_access selects
\* from all patients for U.
C1_ScopingSymmetry ==
    \A U \in Users : \A P \in AllPatients :
        can_access_patient(U, P) <=> P \in filter_patients_by_access(AllPatients, U)

\* C2: filter_patients_by_access selects, for a case_manager, exactly the
\* patients of the user's facility and none without a facility; every
\* patient for a super_admin without home health; for a tenant role with a
\* home health exactly the patients of that home health; and no patient for
\* an admin or clinician without home health or for an unrecognized role.
C2_FilterSelects ==
    \A U \in Users :
        LET selected == filter_patients_by_access(AllPatients, U) IN
        /\ U.role_name = "case_manager" /\ U.facility_id # NULL
             => selected = {P \in AllPatients : P.facility_id = U.facility_id}
        /\ U.role_name = "case_manager" /\ U.facility_id = NULL => selected = {}
        /\ U.role_name = "super_admin" /\ U.home_health_id = NULL
             => selected = AllPatients
        /\ U.role_name \in TenantRoles /\ U.home_health_id # NULL
             => selected = {P \in AllPatients : P.home_health_id = U.home_health_id}
        /\ U.role_name \in {"admin", "clinician"} /\ U.home_health_id = NULL
             => selected = {}
        /\ U.role_name \notin TenantRoles \cup {"case_manager"} => selected = {}

\* a case manager with a facility has listed the patients and got one
C2_Witness ==
    /\ resp.op = "get_patients"
    /\ resp.user.role_name = "case_manager"
    /\ resp.user.facility_id # NULL
    /\ resp.result # {}

\* C3: can_create_patient holds exactly for the roles super_admin, admin and
\* clinician; can_modify_patient exactly for a super_admin without home
\* health or a super_admin, admin or clinician whose home_health_id equals
\* the patient's; can_delete_patient the same without clinician.
C3_SingleResourceChecks ==
    \A U \in Users :
        /\ can_create_patient(U) <=> U.role_name \in TenantRoles
        /\ \A P \in AllPatients :
            /\ can_modify_patient(U, P) <=>
                 \/ U.role_name = "super_admin" /\ U.home_health_id = NULL
                 \/ U.role_name \in TenantRoles
                      /\ U.home_health_id = P.home_health_id
            /\ can_delete_patient(U, P) <=>
                 \/ U.role_name = "super_admin" /\ U.home_health_id = NULL
                 \/ U.role_name \in {"super_admin", "admin"}
                      /\ U.home_health_id = P.home_health_id

\* a clinician was refused the delete of a patient of the own tenant
C3_Witness ==
    /\ resp.op = "delete_patient"
    /\ resp.status = 403
    /\ resp.user.role_name = "clinician"
    /\ \E P \in AllPatients :
          /\ P.id = resp.patient_id
          /\ P.home_health_id = resp.user.home_health_id
          /\ can_modify_patient(resp.user, P)

\* C4: whenever can_modify_patient(U, P) or can_delete_patient(U, P) holds,
\* P is among the rows filter_patients_by_access selects for U.
C4_ModifyWithinFilter ==
    \A U \in Users : \A P \in AllPatients :
        can_modify_patient(U, P) \/ can_delete_patient(U, P)
            => P \in filter_patients_by_access(AllPatients, U)

filter_facilities_by_access(query, current_user) ==
    IF current_user.role_name = "case_manager"
    THEN IF current_user.facility_id # NULL
         THEN {f \in query : f.id = current_user.facility_id}
         ELSE query
    ELSE IF current_user.role_name \in {"super_admin", "admin", "clinician"}
    THEN IF current_user.role_name = "super_admin"
              /\ current_user.home_health_id = NULL
         THEN query
         ELSE IF current_user.home_health_id # NULL
         THEN IF current_user.home_health_id \in home_health
              THEN IF hospital_ids(current_user.home_health_id) # {}
                   THEN {f \in query :
                           /\ f.hospital_id # NULL
                           /\ f.hospital_id \in
                                hospital_ids(current_user.home_health_id)}
                   ELSE query
              ELSE query
         ELSE query
    ELSE query

\* GET /facilities/
GetFacilities(u) ==
    /\ IF u.role_name = "clinician"
       THEN resp' = Resp("get_facilities", 403, u, NULL)
       ELSE resp' = [Resp("get_facilities", 200, u, NULL) EXCEPT
                       !.result = filter_facilities_by_access(facilities, u)]
    /\ audit_logs' = <<>>
    /\ UNCHANGED <<patients, next_patient_pk, patient_forms, next_form_pk, now>>
    /\ UNCHANGED <<session, org_vars, side_vars>>

\* GET /facilities/<facility_id>
GetFacility(u, facility_id) ==
    /\ IF u.role_name = "clinician"
       THEN resp' = [Resp("get_facility", 403, u, NULL) EXCEPT
                       !.form_id = facility_id]
       ELSE IF ~\E f \in facilities : f.id = facility_id
       THEN resp' = [Resp("get_facility", 404, u, NULL) EXCEPT
                       !.form_id = facility_id]
       ELSE LET facility == CHOOSE f \in facilities : f.id = facility_id IN
            IF filter_facilities_by_access({facility}, u) = {}
            THEN resp' = [Resp("get_facility", 403, u, NULL) EXCEPT
                            !.form_id = facility_id]
            ELSE resp' = [Resp("get_facility", 200, u, NULL) EXCEPT
                            !.form_id = facility_id, !.result = {facility}]
    /\ audit_logs' = <<>>
    /\ UNCHANGED <<patients, next_patient_pk, patient_forms, next_form_pk, now>>
    /\ UNCHANGED <<session, org_vars, side_vars>>

\* the facilities, each of a hospital or of none; the agencies that exist;
\* the hospitals linked to them
InitFacilities ==
    /\ patients = {}
    /\ next_patient_pk = 1
    /\ patient_forms = <<>>
    /\ next_form_pk = 1
    /\ now = 0
    /\ resp = Resp("none", 0, AnyUser, NULL)
    /\ audit_logs = <<>>
    /\ session = <<>>
    /\ \E h \in [FacilityIds -> {NULL} \cup HospitalIds] :
          facilities = {Facility(i, h[i]) : i \in FacilityIds}
    /\ home_health \in SUBSET HomeHealthIds
    /\ home_health_hospitals \in SUBSET (home_health \X HospitalIds)
    /\ InitSide

NextFacilities ==
    \/ \E u \in Callers : GetFacilities(u)
    \/ \E u \in Callers, facility_id \in 1..(MaxFacility + 1) :
          GetFacility(u, facility_id)

SpecFacilities == InitFacilities /\ [][NextFacilities]_vars

\* ------------------------------------------------- services/audit_service.py

\* a text is a sequence of one-character strings; None and the empty text
\* are both <<>> (log_action stores None for either)
DigitChars == {"0", "1", "2", "3", "4", "5", "6", "7", "8", "9"}
LetterChars ==
    {"a", "b", "c", "d", "e", "f", "g", "h", "i", "j", "k", "l", "m", "n",
     "o", "p", "q", "r", "s", "t", "u", "v", "w", "x", "y", "z", "A", "B",
     "C", "D", "E", "F", "G", "H", "I", "J", "K", "L", "M", "N", "O", "P",
     "Q", "R", "S", "T", "U", "V", "W", "X", "Y", "Z"}
\* \w of the patterns
WordChars == DigitChars \cup LetterChars \cup {"_"}
\* [A-Za-z0-9._%+-], [A-Za-z0-9.-], [A-Z|a-z], [-.], [/-], \s
EmailLocalChars == DigitChars \cup LetterChars \cup {".", "_", "%", "+", "-"}
EmailDomainChars == DigitChars \cup LetterChars \cup {".", "-"}
EmailTldChars == LetterChars \cup {"|"}
PhoneSepChars == {"-", "."}
DateSepChars == {"/", "-"}
SpaceChars == {" "}

EMAIL_REDACTED == <<"[", "E", "M", "A", "I", "L", "_", "R", "E", "D", "A", "C", "T", "E", "D", "]">>
PHONE_REDACTED == <<"[", "P", "H", "O", "N", "E", "_", "R", "E", "D", "A", "C", "T", "E", "D", "]">>
DATE_REDACTED == <<"[", "D", "A", "T", "E", "_", "R", "E", "D", "A", "C", "T", "E", "D", "]">>
SSN_REDACTED == <<"[", "S", "S", "N", "_", "R", "E", "D", "A", "C", "T", "E", "D", "]">>

\* error_message[:500]
ERROR_MESSAGE_LIMIT == 500

In(s, k, C) == k \in 1..Len(s) /\ s[k] \in C
\* \b between s[p] and s[p+1]
Boundary(s, p) == In(s, p, WordChars) # In(s, p + 1, WordChars)
\* s[i..i+n-1] are n characters of C
AllIn(s, i, n, C) == i >= 1 /\ i + n - 1 <= Len(s) /\ \A k \in i..(i + n - 1) : s[k] \in C
\* last index of the longest run of characters of C that starts at i
\* (i - 1 when s[i] is not in C)
RunEnd(s, i, C) ==
    CHOOSE j \in (i - 1)..Len(s) :
        /\ \A k \in i..j : s[k] \in C
        /\ ~In(s, j + 1, C)

\* each Match operator gives the last index of the text the pattern matches
\* from index i on, 0 when it does not match there

\* \b[A-Za-z0-9._%+-]+@[A-Za-z0-9.-]+\.[A-Z|a-z]{2,}\b : the greedy domain
\* gives back characters until a dot with a top-level part follows, and the
\* top-level part gives back characters until a word boundary follows
MatchEmail(s, i) ==
    LET at == RunEnd(s, i, EmailLocalChars) + 1
        dom == RunEnd(s, at + 1, EmailDomainChars)
        \* ends of the match for a domain part that ends at k
        Ends(k) == {e \in (k + 3)..RunEnd(s, k + 2, EmailTldChars) : Boundary(s, e)}
        ks == {k \in (at + 1)..dom : In(s, k + 1, {"."}) /\ Ends(k) # {}}
    IN IF /\ In(s, i, EmailLocalChars) /\ Boundary(s, i - 1)
          /\ In(s, at, {"@"}) /\ ks # {}
       THEN SetMax(Ends(SetMax(ks))) ELSE 0

\* \b\d{3}[-.]?\d{3}[-.]?\d{4}\b
MatchPhone(s, i) ==
    LET a == IF In(s, i + 3, PhoneSepChars) THEN i + 4 ELSE i + 3
        b == IF In(s, a + 3, PhoneSepChars) THEN a + 4 ELSE a + 3
    IN IF /\ AllIn(s, i, 3, DigitChars) /\ Boundary(s, i - 1)
          /\ AllIn(s, a, 3, DigitChars) /\ AllIn(s, b, 4, DigitChars)
          /\ Boundary(s, b + 3)
       THEN b + 3 ELSE 0

\* \(\d{3}\)\s*\d{3}[-.]?\d{4}
MatchPhoneParen(s, i) ==
    LET a == RunEnd(s, i + 5, SpaceChars) + 1
        b == IF In(s, a + 3, PhoneSepChars) THEN a + 4 ELSE a + 3
    IN IF /\ In(s, i, {"("}) /\ AllIn(s, i + 1, 3, DigitChars) /\ In(s, i + 4, {")"})
          /\ AllIn(s, a, 3, DigitChars) /\ AllIn(s, b, 4, DigitChars)
       THEN b + 3 ELSE 0

\* \b\d{1,2}[/-]\d{1,2}[/-]\d{2,4}\b : a separator or a boundary has to
\* follow each digit group, so each group is a whole run of digits
MatchDate(s, i) ==
    LET a == RunEnd(s, i, DigitChars)
        b == RunEnd(s, a + 2, DigitChars)
        c == RunEnd(s, b + 2, DigitChars)
    IN IF /\ In(s, i, DigitChars) /\ Boundary(s, i - 1)
          /\ a - i + 1 \in 1..2 /\ In(s, a + 1, DateSepChars)
          /\ b - a - 1 \in 1..2 /\ In(s, b + 1, DateSepChars)
          /\ c - b - 1 \in 2..4 /\ Boundary(s, c)
       THEN c ELSE 0

\* \b\d{4}-\d{2}-\d{2}\b
MatchIsoDate(s, i) ==
    IF /\ AllIn(s, i, 4, DigitChars) /\ Boundary(s, i - 1) /\ In(s, i + 4, {"-"})
       /\ AllIn(s, i + 5, 2, DigitChars) /\ In(s, i + 7, {"-"})
       /\ AllIn(s, i + 8, 2, DigitChars) /\ Boundary(s, i + 9)
    THEN i + 9 ELSE 0

\* \b\d{3}-\d{2}-\d{4}\b
MatchSsn(s, i) ==
    IF /\ AllIn(s, i, 3, DigitChars) /\ Boundary(s, i - 1) /\ In(s, i + 3, {"-"})
       /\ AllIn(s, i + 4, 2, DigitChars) /\ In(s, i + 6, {"-"})
       /\ AllIn(s, i + 7, 4, DigitChars) /\ Boundary(s, i + 10)
    THEN i + 10 ELSE 0

Match(pattern, s, i) ==
    CASE pattern = "email" -> MatchEmail(s, i)
      [] pattern = "phone" -> MatchPhone(s, i)
      [] pattern = "phone_paren" -> MatchPhoneParen(s, i)
      [] pattern = "date" -> MatchDate(s, i)
      [] pattern = "iso_date" -> MatchIsoDate(s, i)
      [] pattern = "ssn" -> MatchSsn(s, i)

\* re.sub(pattern, token, s) from index from on: the leftmost match is
\* replaced and the scan goes on behind it
RECURSIVE re_sub(_, _, _, _)
re_sub(pattern, token, s, from) ==
    LET starts == {i \in from..Len(s) : Match(pattern, s, i) > 0} IN
    IF starts = {} THEN SubSeq(s, from, Len(s))
    ELSE LET i == CHOOSE x \in starts : \A y \in starts : x <= y IN
         SubSeq(s, from, i - 1) \o token
            \o re_sub(pattern, token, s, Match(pattern, s, i) + 1)

\* the patterns and their tokens in the order _sanitize_error_message
\* applies them
PhiPatterns ==
    <<<<"email", EMAIL_REDACTED>>, <<"phone", PHONE_REDACTED>>,
      <<"phone_paren", PHONE_REDACTED>>, <<"date", DATE_REDACTED>>,
      <<"iso_date", DATE_REDACTED>>, <<"ssn", SSN_REDACTED>>>>

\* error_message = re.sub(pattern, token, error_message), pattern by pattern
RECURSIVE re_sub_all(_, _)
re_sub_all(patterns, s) ==
    IF patterns = <<>> THEN s
    ELSE re_sub_all(Tail(patterns),
                    re_sub(Head(patterns)[1], Head(patterns)[2], s, 1))

\* _sanitize_error_message; each pattern needs an "@" or a digit, so on a
\* text with neither all six re.sub calls find nothing and give the text
\* back
_sanitize_error_message(error_message) ==
    IF \A k \in 1..Len(error_message) :
          error_message[k] \notin DigitChars \cup {"@"}
    THEN error_message
    ELSE re_sub_all(PhiPatterns, error_message)

\* an audit_logs row: user is the users row of user_id, patient_id is
\* details['patient_id']
AuditLog(user, action, resource_type, resource_id, patient_id, success, error_message) ==
    [user |-> user, action |-> action, resource_type |-> resource_type,
     resource_id |-> resource_id, patient_id |-> patient_id,
     success |-> success, error_message |-> error_message]

\* error_message[:500] if error_message else None
truncated(error_message) ==
    SubSeq(error_message, 1,
           IF Len(error_message) < ERROR_MESSAGE_LIMIT
           THEN Len(error_message) ELSE ERROR_MESSAGE_LIMIT)

\* what can go wrong inside the try block of log_action: nothing; an
\* exception before db.session.add (lines 63-93); an exception of
\* db.session.commit (line 96); and that with db.session.rollback raising
\* as well (line 104)
LogFaults == {"none", "build", "commit", "rollback"}

\* log_action (lines 62-106) on a session with the pending objects ses:
\* raised tells whether an exception leaves the function, committed are
\* the pending objects the commit wrote, session the pending objects
\* afterwards, added the audit_logs rows written.  It lets the exception
\* out.
log_action_reraise(ses, args, fault) ==
    IF fault = "none"
    THEN [raised |-> FALSE, committed |-> ses, session |-> <<>>,
          added |-> <<AuditLog(args.user, args.action, args.resource_type,
                               args.resource_id, args.patient_id, args.success,
                               _sanitize_error_message(truncated(args.error_message)))>>]
    ELSE [raised |-> TRUE, committed |-> <<>>, session |-> ses, added |-> <<>>]

\* log_action (lines 62-106)
log_action(ses, args, fault) ==
    IF fault = "none"
    THEN [raised |-> FALSE, committed |-> ses, session |-> <<>>,
          added |-> <<AuditLog(args.user, args.action, args.resource_type,
                               args.resource_id, args.patient_id, args.success,
                               _sanitize_error_message(truncated(args.error_message)))>>]
    ELSE IF fault \in {"build", "commit"}
    THEN \* except: db.session.rollback() discards what is pending
         [raised |-> FALSE, committed |-> <<>>, session |-> <<>>, added |-> <<>>]
    ELSE \* the rollback raised too and is passed over
         [raised |-> FALSE, committed |-> <<>>, session |-> ses, added |-> <<>>]

LogArgs(user, action, resource_type, resource_id, patient_id, success, error_message) ==
    [user |-> user, action |-> action, resource_type |-> resource_type,
     resource_id |-> resource_id, patient_id |-> patient_id,
     success |-> success, error_message |-> error_message]

\* log_patient_form_access (lines 155-169), called by a route after its
\* commit or rollback: the rows it adds to audit_logs
log_patient_form_access(user, action, form_id, patient_id, success, error_message) ==
    log_action(<<>>, LogArgs(user, action, "patient_form", form_id, patient_id,
                             success, error_message), "none").added

\* DataErrorText as the text log_action is given
DataErrorMessage ==
    <<"i", "n", "t", "e", "g", "e", "r", " ", "o", "u", "t", " ", "o", "f",
      " ", "r", "a", "n", "g", "e">>

\* 'Access denied - insufficient permissions'
AccessDeniedMessage ==
    <<"A", "c", "c", "e", "s", "s", " ", "d", "e", "n", "i", "e", "d", " ",
      "-", " ", "i", "n", "s", "u", "f", "f", "i", "c", "i", "e", "n", "t",
      " ", "p", "e", "r", "m", "i", "s", "s", "i", "o", "n", "s">>

\* ------------------------------------------------- routes/patient_forms.py

\* rows of (patient_id, form_id)
RowsOfForm(table, patient_id, form_id) ==
    {r \in RowsOfPatient(table, patient_id) : r.form_id = form_id}

\* GET /patients/<patient_id>/forms/ ; latest_only is the query parameter
GetPatientForms(u, patient_id, latest_only) ==
    /\ IF ~PatientExists(patient_id)
       THEN /\ resp' = Resp("get_patient_forms", 404, u, patient_id)
            /\ audit_logs' = <<>>
       ELSE IF ~can_access_patient(u, PatientById(patient_id))
       THEN /\ resp' = Resp("get_patient_forms", 403, u, patient_id)
            /\ audit_logs' = log_patient_form_access(u, "access_denied", NULL,
                  patient_id, FALSE, AccessDeniedMessage)
       ELSE /\ \E forms \in OrderedDesc(
                    IF latest_only
                    THEN get_latest_forms_rows(patient_forms, patient_id)
                    ELSE RowsOfPatient(patient_forms, patient_id)) :
                  resp' = [Resp("get_patient_forms", 200, u, patient_id) EXCEPT
                             !.result = forms, !.replace = latest_only]
            /\ audit_logs' = log_patient_form_access(u, "read", NULL,
                  patient_id, TRUE, <<>>)
    /\ UNCHANGED <<patients, next_patient_pk, patient_forms, next_form_pk, now>>
    /\ UNCHANGED <<session, org_vars, side_vars>>

\* POST /patients/<patient_id>/forms/ ; data = [form_type, form_data,
\* form_id], form_type "" is a missing formType
CreatePatientForm(u, patient_id, data) ==
    /\ next_form_pk <= MaxFormPk
    /\ IF ~PatientExists(patient_id)
       THEN /\ resp' = Resp("create_patient_form", 404, u, patient_id)
            /\ audit_logs' = <<>>
            /\ UNCHANGED <<patient_forms, next_form_pk>>
       ELSE IF ~can_modify_patient(u, PatientById(patient_id))
       THEN /\ resp' = Resp("create_patient_form", 403, u, patient_id)
            /\ audit_logs' = log_patient_form_access(u, "access_denied", NULL,
                  patient_id, FALSE, AccessDeniedMessage)
            /\ UNCHANGED <<patient_forms, next_form_pk>>
       ELSE IF data.form_type = ""
       THEN /\ resp' = [Resp("create_patient_form", 400, u, patient_id) EXCEPT
                          !.raw = data.form_id, !.items = <<data>>]
            /\ audit_logs' = <<>>
            /\ UNCHANGED <<patient_forms, next_form_pk>>
       ELSE LET parsed == route_form_id_int(data.form_id)
                form_id_int == IF parsed.kind = "none"
                               THEN next_form_id(patient_forms, patient_id)
                               ELSE parsed
            IN IF form_id_int.kind # "ok"
               THEN \* the INTEGER column rejects the value: rollback
                    /\ resp' = [Resp("create_patient_form", 500, u, patient_id)
                                  EXCEPT !.raw = data.form_id, !.items = <<data>>,
                                         !.error = CreateFormErrorText]
                    /\ audit_logs' = log_patient_form_access(u, "create", NULL,
                          patient_id, FALSE, DataErrorMessage)
                    /\ UNCHANGED <<patient_forms, next_form_pk>>
               ELSE /\ patient_forms' = Append(patient_forms,
                          PatientForm(next_form_pk, form_id_int.v, patient_id,
                                      data.form_type, data.form_data, now))
                    /\ next_form_pk' = next_form_pk + 1
                    /\ resp' = [Resp("create_patient_form", 201, u, patient_id)
                                  EXCEPT !.raw = data.form_id,
                                         !.items = <<data>>,
                                         !.form_id = form_id_int.v]
                    \* is_update: the form_id had rows before this one
                    /\ audit_logs' = log_patient_form_access(u,
                          IF RowsOfForm(patient_forms, patient_id, form_id_int.v) # {}
                          THEN "update" ELSE "create",
                          form_id_int.v, patient_id, TRUE, <<>>)
    /\ UNCHANGED <<patients, next_patient_pk, now>>
    /\ UNCHANGED <<session, org_vars, side_vars>>

\* PUT /patients/<patient_id>/forms/<form_id> ; data = [form_type,
\* form_data]: "" is a missing formType, a missing or empty formData
UpdatePatientForm(u, patient_id, form_id, data) ==
    /\ next_form_pk <= MaxFormPk
    /\ IF ~PatientExists(patient_id)
       THEN /\ resp' = Resp("update_patient_form", 404, u, patient_id)
            /\ audit_logs' = <<>>
            /\ UNCHANGED <<patient_forms, next_form_pk>>
       ELSE IF ~can_modify_patient(u, PatientById(patient_id))
       THEN /\ resp' = Resp("update_patient_form", 403, u, patient_id)
            /\ audit_logs' = log_patient_form_access(u, "access_denied", form_id,
                  patient_id, FALSE, AccessDeniedMessage)
            /\ UNCHANGED <<patient_forms, next_form_pk>>
       ELSE IF RowsOfForm(patient_forms, patient_id, form_id) = {}
       THEN /\ resp' = Resp("update_patient_form", 404, u, patient_id)
            /\ audit_logs' = <<>>
            /\ UNCHANGED <<patient_forms, next_form_pk>>
       ELSE IF data.form_data = ""
       THEN /\ resp' = Resp("update_patient_form", 400, u, patient_id)
            /\ audit_logs' = <<>>
            /\ UNCHANGED <<patient_forms, next_form_pk>>
       ELSE \* existing_form: a row of the form with the latest created_at
            \E existing_form \in
                 {r \in RowsOfForm(patient_forms, patient_id, form_id) :
                    \A q \in RowsOfForm(patient_forms, patient_id, form_id) :
                        q.created_at <= r.created_at} :
               /\ patient_forms' = Append(patient_forms,
                     PatientForm(next_form_pk, form_id, patient_id,
                                 IF data.form_type = ""
                                 THEN existing_form.form_type ELSE data.form_type,
                                 data.form_data, now))
               /\ next_form_pk' = next_form_pk + 1
               /\ resp' = [Resp("update_patient_form", 200, u, patient_id)
                             EXCEPT !.form_id = form_id]
               /\ audit_logs' = log_patient_form_access(u, "update", form_id,
                     patient_id, TRUE, <<>>)
    /\ UNCHANGED <<patients, next_patient_pk, now>>
    /\ UNCHANGED <<session, org_vars, side_vars>>

\* DELETE /patients/<patient_id>/forms/<form_id> ; resp.result is
\* deleted_versions
DeletePatientForm(u, patient_id, form_id) ==
    /\ IF ~PatientExists(patient_id)
       THEN /\ resp' = [Resp("delete_patient_form", 404, u, patient_id)
                          EXCEPT !.form_id = form_id]
            /\ audit_logs' = <<>>
            /\ UNCHANGED patient_forms
       ELSE IF ~can_modify_patient(u, PatientById(patient_id))
       THEN /\ resp' = [Resp("delete_patient_form", 403, u, patient_id)
                          EXCEPT !.form_id = form_id]
            /\ audit_logs' = log_patient_form_access(u, "access_denied", form_id,
                  patient_id, FALSE, AccessDeniedMessage)
            /\ UNCHANGED patient_forms
       ELSE IF RowsOfForm(patient_forms, patient_id, form_id) = {}
       THEN /\ resp' = [Resp("delete_patient_form", 404, u, patient_id)
                          EXCEPT !.form_id = form_id]
            /\ audit_logs' = <<>>
            /\ UNCHANGED patient_forms
       ELSE /\ patient_forms' = delete_rows(patient_forms,
                                    RowsOfForm(patient_forms, patient_id, form_id))
            /\ resp' = [Resp("delete_patient_form", 200, u, patient_id)
                          EXCEPT !.form_id = form_id,
                                 !.result = Cardinality(
                                    RowsOfForm(patient_forms, patient_id, form_id))]
            /\ audit_logs' = log_patient_form_access(u, "delete", form_id,
                  patient_id, TRUE, <<>>)
    /\ UNCHANGED <<patients, next_patient_pk, next_form_pk, now, session, org_vars, side_vars>>

\* datetime.utcnow() moves on between two requests, or does not
Tick ==
    /\ now < MaxClock
    /\ now' = now + 1
    /\ UNCHANGED <<patients, next_patient_pk, patient_forms, next_form_pk, resp>>
    /\ UNCHANGED <<audit_logs, session, org_vars, side_vars>>

\* ------------------------------------------------- the form store
FormItem(form_id, form_type, form_data) ==
    [form_id |-> form_id, form_type |-> form_type, form_data |-> form_data]

\* forms arrays of at most MaxBatch items
Batches(Items) == UNION {[1..n -> Items] : n \in 0..MaxBatch}

\* bodies of PUT /patients/<id> that carry a forms array
FormsBodies(Items) ==
    {PatientData(TRUE, Absent, Absent, Absent, [present |-> TRUE, items |-> b]) :
        b \in Batches(Items)}

\* the two users of the form store: an admin of tenant 1, a case manager
TenantAdmin == [role_name |-> "admin", facility_id |-> NULL, home_health_id |-> 1]
CaseManager == [role_name |-> "case_manager", facility_id |-> 1, home_health_id |-> NULL]
FormCallers == {TenantAdmin, CaseManager}

FormPatientIds == 1..MaxFormPatients

\* the patients of tenant 1 exist, without forms
InitForms ==
    /\ patients = {Patient(i, 1, 1) : i \in FormPatientIds}
    /\ next_patient_pk = MaxFormPatients + 1
    /\ patient_forms = <<>>
    /\ next_form_pk = 1
    /\ now = 0
    /\ resp = Resp("none", 0, AnyUser, NULL)
    /\ audit_logs = <<>>
    /\ session = <<>>
    /\ facilities = {Facility(i, NULL) : i \in FacilityIds}
    /\ home_health = HomeHealthIds
    /\ home_health_hospitals = {}
    /\ InitSide

\* bodies of POST /patients/<id>/forms/
CreateFormBodies ==
    {FormItem(i, "intake", "a") :
        i \in {RawNone, RawInt(FALSE, <<1>>), RawInt(FALSE, <<2>>)}}
    \cup {FormItem(RawInt(FALSE, <<1>>), "assessment", "a"),
          FormItem(RawNone, "", "a")}

\* bodies of PUT /patients/<id>/forms/<form_id>
UpdateFormBodies ==
    {FormItem(RawNone, "", "a"), FormItem(RawNone, "assessment", "a"),
     FormItem(RawNone, "intake", "")}

\* the single-form routes and the clock
NextForms ==
    \/ Tick
    \/ \E u \in FormCallers, patient_id \in FormPatientIds, latest_only \in BOOLEAN :
          GetPatientForms(u, patient_id, latest_only)
    \/ \E u \in FormCallers, patient_id \in FormPatientIds, data \in CreateFormBodies :
          CreatePatientForm(u, patient_id, data)
    \/ \E u \in FormCallers, patient_id \in FormPatientIds, form_id \in 1..2,
          data \in UpdateFormBodies :
          UpdatePatientForm(u, patient_id, form_id, data)

SpecForms == InitForms /\ [][NextForms]_vars

\* items of the forms arrays: {formId: 1, intake, a}, {formId: 2, intake, b},
\* {assessment, a} without formId, {formId: "-2", assessment, b},
\* {formId: 1, assessment, b}
BatchItems ==
    {FormItem(RawInt(FALSE, <<1>>), "intake", "a"),
     FormItem(RawInt(FALSE, <<2>>), "intake", "b"),
     FormItem(RawNone, "assessment", "a"),
     FormItem(RawStr("-", <<2>>), "assessment", "b"),
     FormItem(RawInt(FALSE, <<1>>), "assessment", "b")}

\* one patient of tenant 1, without forms
InitBatch ==
    /\ patients = {Patient(1, 1, 1)}
    /\ next_patient_pk = 2
    /\ patient_forms = <<>>
    /\ next_form_pk = 1
    /\ now = 0
    /\ resp = Resp("none", 0, AnyUser, NULL)
    /\ audit_logs = <<>>
    /\ session = <<>>
    /\ facilities = {Facility(i, NULL) : i \in FacilityIds}
    /\ home_health = HomeHealthIds
    /\ home_health_hospitals = {}
    /\ InitSide

\* PUT /patients/<id> with a forms array
NextBatch ==
    \E u \in FormCallers, data \in FormsBodies(BatchItems) : UpdatePatient(u, 1, data)

SpecBatch == InitBatch /\ [][NextBatch]_vars

\* form ids a single-form request may carry: none, 1, 2147483648,
\* -2147483649, "2", "form-1", "form-9999999999999", "-2", "abc"
RouteIds ==
    {RawNone, RawInt(FALSE, <<1>>),
     RawInt(FALSE, <<2, 1, 4, 7, 4, 8, 3, 6, 4, 8>>),
     RawInt(TRUE, <<2, 1, 4, 7, 4, 8, 3, 6, 4, 9>>),
     RawStr("", <<2>>),
     RawStr("form-", <<1>>),
     RawStr("form-", <<9, 9, 9, 9, 9, 9, 9, 9, 9, 9, 9, 9, 9>>),
     RawStr("-", <<2>>),
     RawStr("abc", <<>>)}

\* POST /patients/1/forms/ with each shape of form id
NextFormIds ==
    \E u \in FormCallers, form_id \in RouteIds, form_type \in FormTypes :
        CreatePatientForm(u, 1, FormItem(form_id, form_type, "a"))

SpecFormIds == InitBatch /\ [][NextFormIds]_vars

\* POST and DELETE of single forms over the patients of tenant 1
NextFormDelete ==
    \/ \E u \in FormCallers, patient_id \in FormPatientIds, data \in CreateFormBodies :
          CreatePatientForm(u, patient_id, data)
    \/ \E u \in FormCallers, patient_id \in FormPatientIds, form_id \in 1..2 :
          DeletePatientForm(u, patient_id, form_id)

SpecFormDelete == InitForms /\ [][NextFormDelete]_vars

\* forms without a formType: {a} and {formId: 1, b}, next to {intake, a}
TypeItems ==
    {FormItem(RawNone, "", "a"), FormItem(RawInt(FALSE, <<1>>), "", "b"),
     FormItem(RawNone, "intake", "a")}

\* the two ways to create a form: POST /patients/<id>/forms/ and the
\* forms array of PUT /patients/<id>
NextFormTypes ==
    \/ \E u \in FormCallers, data \in TypeItems : CreatePatientForm(u, 1, data)
    \/ \E u \in FormCallers, data \in FormsBodies(TypeItems) : UpdatePatient(u, 1, data)

SpecFormTypes == InitBatch /\ [][NextFormTypes]_vars

\* ------------------------------------------------- the audit service

\* n blanks
Pad(n) == SubSeq([i \in 1..n |-> " "], 1, n)

\* error_message arguments of log_action
AuditMessages ==
    {
     <<>>,
     \* denied
     <<"d", "e", "n", "i", "e", "d">>,
     \* Error: john.doe@example.com not found
     <<"E", "r", "r", "o", "r", ":", " ", "j", "o", "h", "n", ".", "d", "o",
      "e", "@", "e", "x", "a", "m", "p", "l", "e", ".", "c", "o", "m", " ",
      "n", "o", "t", " ", "f", "o", "u", "n", "d">>,
     \* Error: Contact 555-123-4567
     <<"E", "r", "r", "o", "r", ":", " ", "C", "o", "n", "t", "a", "c", "t",
      " ", "5", "5", "5", "-", "1", "2", "3", "-", "4", "5", "6", "7">>,
     \* Error: Patient born on 1990-01-15
     <<"E", "r", "r", "o", "r", ":", " ", "P", "a", "t", "i", "e", "n", "t",
      " ", "b", "o", "r", "n", " ", "o", "n", " ", "1", "9", "9", "0", "-",
      "0", "1", "-", "1", "5">>,
     \* ssn 123-45-6789
     <<"s", "s", "n", " ", "1", "2", "3", "-", "4", "5", "-", "6", "7", "8",
      "9">>,
     \* call (555) 123-4567
     <<"c", "a", "l", "l", " ", "(", "5", "5", "5", ")", " ", "1", "2", "3",
      "-", "4", "5", "6", "7">>,
     \* seen 1/15/90
     <<"s", "e", "e", "n", " ", "1", "/", "1", "5", "/", "9", "0">>,
     \* at 1990-01-15T10:30
     <<"a", "t", " ", "1", "9", "9", "0", "-", "0", "1", "-", "1", "5", "T",
      "1", "0", ":", "3", "0">>,
     \* 1/15/90 and 493 blanks: 500 characters
     <<"1", "/", "1", "5", "/", "9", "0", " ">> \o Pad(ERROR_MESSAGE_LIMIT - 8),
     \* 600 characters
     Pad(ERROR_MESSAGE_LIMIT + 100)
    }

\* db.session.add(new_form) of a caller: the row is pending
SessionAdd(patient_id) ==
    /\ next_form_pk <= MaxFormPk
    /\ session' = Append(session,
          PatientForm(next_form_pk, 1, patient_id, "intake", "a", now))
    /\ next_form_pk' = next_form_pk + 1
    /\ resp' = Resp("session_add", 0, AnyUser, patient_id)
    /\ audit_logs' = <<>>
    /\ UNCHANGED <<patients, next_patient_pk, patient_forms, now, org_vars, side_vars>>

\* db.session.commit() of a caller: what is pending is written
SessionCommit ==
    /\ session # <<>>
    /\ patient_forms' = patient_forms \o session
    /\ session' = <<>>
    /\ resp' = Resp("session_commit", 0, AnyUser, NULL)
    /\ audit_logs' = <<>>
    /\ UNCHANGED <<patients, next_patient_pk, next_form_pk, now, org_vars, side_vars>>

\* AuditService.log_action(...) called with the session as it is
LogAction(u, error_message, fault) ==
    LET out == log_action(session,
                   LogArgs(u, "create", "patient_form", 1, 1,
                           error_message = <<>>, error_message), fault)
    IN /\ patient_forms' = patient_forms \o out.committed
       /\ session' = out.session
       /\ audit_logs' = out.added
       /\ resp' = [Resp("log_action", 0, u, 1) EXCEPT
                      !.log = [raised |-> out.raised, fault |-> fault,
                               error_message |-> error_message]]
       /\ UNCHANGED <<patients, next_patient_pk, next_form_pk, now, org_vars, side_vars>>

NextAudit ==
    \/ SessionAdd(1)
    \/ SessionCommit
    \/ \E error_message \in AuditMessages, fault \in LogFaults :
          LogAction(TenantAdmin, error_message, fault)

SpecAudit == InitBatch /\ [][NextAudit]_vars

\* ------------------------------------------------- rejected requests

\* bodies of POST /patients/ : one that fails validation, one that passes
RejectCreateBodies ==
    {PatientData(FALSE, Name(1), Absent, Absent, NoForms),
     PatientData(TRUE, Name(1), Absent, Absent, NoForms)}

\* bodies of PUT /patients/<id> : one that fails validation, one that moves
\* the patient to facility 2
RejectUpdateBodies ==
    {PatientData(FALSE, Absent, Absent, Absent, NoForms),
     PatientData(TRUE, Name(2), Absent, Absent, NoForms)}

\* the writing routes, called by a tenant admin and by a case manager
NextRejections ==
    \/ \E u \in FormCallers, data \in RejectCreateBodies :
          CreatePatient(u, data, FALSE)
    \/ \E u \in FormCallers, data \in RejectUpdateBodies :
          UpdatePatient(u, 1, data)
    \/ \E u \in FormCallers : DeletePatient(u, 1)
    \/ \E u \in FormCallers, data \in TypeItems : CreatePatientForm(u, 1, data)
    \/ \E u \in FormCallers, data \in UpdateFormBodies :
          UpdatePatientForm(u, 1, 1, data)
    \/ \E u \in FormCallers : DeletePatientForm(u, 1, 1)

SpecRejections == Init /\ [][NextRejections]_vars

\* ------------------------------------------------- role seed
MaxUsers == 2       \* usernames that register

Usernames ==
    {"citusflo_admin"}
    \cup {<<"nurse_a", "nurse_b", "nurse_c">>[i] : i \in 1..MaxUsers}

RoleIds == {predefined_roles[i].id : i \in 1..Len(predefined_roles)}

\* a seed that adds a row for the role whatever the table holds
seed_role_always_create(acc, us, role_data) ==
    LET pk == IF \E r \in acc.rows : r.id = role_data.id
              THEN Cardinality(acc.rows) + 5 ELSE role_data.id
    IN [acc EXCEPT !.rows = @ \cup {[role_data EXCEPT !.id = pk]},
                   !.created = @ + 1]

\* seed_roles, lines 320-378: one turn of the loop over predefined_roles.
\* acc.rows is the table as the session sees it. Recreating a role under
\* its standard id deletes the old row and adds the new one; the flush
\* inserts before it deletes, the unique name is violated, and the
\* IntegrityError leaves the command with nothing committed (acc.failed).
seed_role(acc, us, role_data) ==
    LET by_id == {r \in acc.rows : r.id = role_data.id}
        by_name == {r \in acc.rows : r.name = role_data.name}
        described(row) ==
            {IF r = row THEN [r EXCEPT !.description = role_data.description]
                        ELSE r : r \in acc.rows}
    IN IF by_id # {}
       THEN LET role_by_id == CHOOSE r \in by_id : TRUE
            IN IF role_by_id.name # role_data.name THEN acc
               ELSE IF role_by_id.description # role_data.description
               THEN [acc EXCEPT !.rows = described(role_by_id),
                                !.updated = @ + 1]
               ELSE [acc EXCEPT !.existing = @ + 1]
       ELSE IF by_name # {}
       THEN LET role_by_name == CHOOSE r \in by_name : TRUE
            IN IF \E u \in us : u.role_id = role_by_name.id
               THEN IF role_by_name.description # role_data.description
                    THEN [acc EXCEPT !.rows = described(role_by_name),
                                     !.updated = @ + 1]
                    ELSE acc
               ELSE [acc EXCEPT !.failed = TRUE, !.created = @ + 1]
       ELSE [acc EXCEPT !.rows = @ \cup {role_data}, !.created = @ + 1]

\* flask seed-roles
SeedRoles ==
    LET start == [rows |-> roles, failed |-> FALSE,
                  created |-> 0, updated |-> 0, existing |-> 0]
        out == seed_role(seed_role(seed_role(seed_role(start,
                   users, predefined_roles[1]),
                   users, predefined_roles[2]),
                   users, predefined_roles[3]),
                   users, predefined_roles[4])
    IN /\ roles' = IF out.failed THEN roles ELSE out.rows
       /\ resp' = [Resp("seed_roles", 0, AnyUser, NULL) EXCEPT
                     !.result = IF out.failed THEN <<>>
                                ELSE <<out.created, out.updated, out.existing>>]
       /\ UNCHANGED <<patients, next_patient_pk, patient_forms, next_form_pk,
                      now, audit_logs, session, org_vars, users,
                      _challenge_store, in_flight>>

\* Role.get_or_create, the id given by the sequence of the table
role_get_or_create(rows, role_data) ==
    IF \E r \in rows : r.name = role_data.name THEN rows
    ELSE rows \cup {[role_data EXCEPT !.id = Cardinality(rows) + 1]}

\* flask init-db, lines 144-190: the roles by name, then the default
\* super admin
InitDb ==
    LET out == role_get_or_create(role_get_or_create(role_get_or_create(
                   role_get_or_create(roles, predefined_roles[1]),
                   predefined_roles[2]), predefined_roles[3]),
                   predefined_roles[4])
        super_admin_role == CHOOSE r \in out : r.name = "super_admin"
    IN /\ roles' = out
       /\ users' = IF \E u \in users : u.username = "citusflo_admin"
                   THEN users
                   ELSE users \cup {[username |-> "citusflo_admin",
                                     role_id |-> super_admin_role.id]}
       /\ resp' = Resp("init_db", 0, AnyUser, NULL)
       /\ UNCHANGED <<patients, next_patient_pk, patient_forms, next_form_pk,
                      now, audit_logs, session, org_vars, _challenge_store, in_flight>>

\* AuthService.create_user, lines 59-93: role_id of the request if the
\* role exists, else the id of the role named; a known username is refused
CreateUser(username, role_id, role) ==
    LET by_name == {r \in roles : r.name = role}
        id == IF role_id # NULL
              THEN IF \E r \in roles : r.id = role_id THEN role_id ELSE NULL
              ELSE IF by_name # {} THEN (CHOOSE r \in by_name : TRUE).id
              ELSE NULL
    IN /\ IF \E u \in users : u.username = username
          THEN /\ resp' = Resp("create_user", 400, AnyUser, NULL)
               /\ UNCHANGED users
          ELSE /\ users' = users \cup {[username |-> username, role_id |-> id]}
               /\ resp' = Resp("create_user", 201, AnyUser, NULL)
       /\ UNCHANGED <<patients, next_patient_pk, patient_forms, next_form_pk,
                      now, audit_logs, session, org_vars, roles,
                      _challenge_store, in_flight>>

\* a database after create_all: no role, no user
InitRoles ==
    /\ patients = {}
    /\ next_patient_pk = 1
    /\ patient_forms = <<>>
    /\ next_form_pk = 1
    /\ now = 0
    /\ resp = Resp("none", 0, AnyUser, NULL)
    /\ audit_logs = <<>>
    /\ session = <<>>
    /\ facilities = {}
    /\ home_health = {}
    /\ home_health_hospitals = {}
    /\ roles = {}
    /\ users = {}
    /\ _challenge_store = {}
    /\ in_flight = {}

NextRoles ==
    \/ SeedRoles
    \/ InitDb
    \/ \E username \in Usernames, role_id \in {NULL} \cup RoleIds \cup {5},
          role \in {"", "admin", "clinician"} :
          CreateUser(username, role_id, role)

SpecRoles == InitRoles /\ [][NextRoles]_vars

\* ------------------------------------------------- hospital of a facility

\* Facility.get_or_create called with a name and a hospital
FacilityGetOrCreate(name, hospital_id) ==
    /\ facilities' = get_or_create(facilities, name, hospital_id)
    /\ resp' = [Resp("get_or_create", 0, AnyUser, NULL) EXCEPT
                  !.request = <<name, hospital_id>>]
    /\ audit_logs' = <<>>
    /\ UNCHANGED <<patients, next_patient_pk, patient_forms, next_form_pk, now,
                   session, home_health, home_health_hospitals, side_vars>>

\* admins with and without a facility and a home health
HospitalCallers ==
    {u \in Users : /\ u.role_name = "admin"
                   /\ u.facility_id \in {NULL, 1}
                   /\ u.home_health_id \in {NULL, 1}}

\* bodies of POST /patients/ that name a facility and, some, a hospital
HospitalBodies ==
    {[PatientData(TRUE, Name(f), Absent, Absent, NoForms) EXCEPT
         !.hospital_id = h, !.hospitalName = n] :
       f \in FacilityIds,
       h \in {Absent, Junk, IntField(MaxHospital), IntField(MaxHospital + 1)},
       n \in {Absent, BlankName, HospitalName(1), HospitalName(MaxHospital + 1)}}

\* some facilities exist, each of a hospital or of none; home health 1 is
\* linked to some hospitals; the patients table has room for one more row
InitHospitals ==
    /\ patients = {Patient(i, NULL, NULL) : i \in 1..(MaxPatients - 1)}
    /\ next_patient_pk = MaxPatients
    /\ patient_forms = <<>>
    /\ next_form_pk = 1
    /\ now = 0
    /\ resp = Resp("none", 0, AnyUser, NULL)
    /\ audit_logs = <<>>
    /\ session = <<>>
    /\ \E present \in SUBSET FacilityIds :
       \E h \in [present -> {NULL} \cup HospitalIds] :
          facilities = {Facility(i, h[i]) : i \in present}
    /\ home_health = HomeHealthIds
    /\ \E linked \in SUBSET HospitalIds :
          home_health_hospitals = {<<1, l>> : l \in linked}
    /\ InitSide

\* the creations in which nothing raises
NextHospitals ==
    \E u \in HospitalCallers, data \in HospitalBodies :
       CreatePatient(u, data, FALSE)

SpecHospitals == InitHospitals /\ [][NextHospitals]_vars

\* bodies of POST /patients/ with and without the hospital_id of a hospital
GetOrCreateBodies ==
    {[PatientData(TRUE, Name(f), Absent, Absent, NoForms) EXCEPT
         !.hospital_id = h] :
       f \in FacilityIds, h \in {Absent, IntField(MaxHospital)}}

\* no facility yet; home health 1 is linked to every hospital
InitGetOrCreate ==
    /\ patients = {}
    /\ next_patient_pk = 1
    /\ patient_forms = <<>>
    /\ next_form_pk = 1
    /\ now = 0
    /\ resp = Resp("none", 0, AnyUser, NULL)
    /\ audit_logs = <<>>
    /\ session = <<>>
    /\ facilities = {}
    /\ home_health = HomeHealthIds
    /\ home_health_hospitals = {<<1, l>> : l \in HospitalIds}
    /\ InitSide

NextGetOrCreate ==
    \/ \E name \in FacilityIds, hospital_id \in {NULL} \cup HospitalIds :
          FacilityGetOrCreate(name, hospital_id)
    \/ \E u \in HospitalCallers, data \in GetOrCreateBodies, raises \in BOOLEAN :
          CreatePatient(u, data, raises)

SpecGetOrCreate == InitGetOrCreate /\ [][NextGetOrCreate]_vars

\* ------------------------------------------------- a replace that fails

\* items of a forms array: form 1, a form without id, and a formId the
\* INTEGER column rejects (2147483648)
ReplaceItems ==
    {FormItem(RawInt(FALSE, <<1>>), "intake", "a"),
     FormItem(RawNone, "assessment", "a"),
     FormItem(RawInt(FALSE, <<2, 1, 4, 7, 4, 8, 3, 6, 4, 8>>), "discharge", "a")}

\* PUT /patients/<id> with a forms array, some with an empty facilityName
NextReplace ==
    \E u \in FormCallers, data \in FormsBodies(ReplaceItems),
       facilityName \in {Absent, EmptyName} :
       UpdatePatient(u, 1, [data EXCEPT !.facilityName = facilityName])

SpecReplace == InitBatch /\ [][NextReplace]_vars

\* ------------------------------------------------- services/webauthn_service.py
MaxMinute == 7      \* minutes the clock runs
MaxChallenge == 2   \* challenge strings

CHALLENGE_EXPIRY_MINUTES == 5

Challenges == 1..MaxChallenge
ChallengeTypes == {"registration", "authentication"}

\* an entry of _challenge_store under its key; user_id and metadata ride
\* along and are left out
ChallengeEntry(challenge, challenge_type, t) ==
    [challenge |-> challenge, type |-> challenge_type, created_at |-> t]

\* _cleanup_expired_challenges at time t
_cleanup_expired_challenges(store, t) ==
    {e \in store : ~(t - e.created_at > CHALLENGE_EXPIRY_MINUTES)}

\* store_challenge at time t
store_challenge(store, challenge, challenge_type, t) ==
    _cleanup_expired_challenges(
        {e \in store : e.challenge # challenge}
            \cup {ChallengeEntry(challenge, challenge_type, t)}, t)

\* a verification that hands the challenge out and leaves it in the store
verify_and_keep_challenge(store, challenge, challenge_type, t) ==
    LET stored == {e \in store : e.challenge = challenge}
    IN [store |-> store,
        data |-> IF stored = {} THEN <<>> ELSE <<CHOOSE e \in stored : TRUE>>]

\* verify_and_consume_challenge at time t: the store it leaves and what it
\* returns, <<>> for None
verify_and_consume_challenge(store, challenge, challenge_type, t) ==
    LET found == {e \in store : e.challenge = challenge}
    IN IF found = {} THEN [store |-> store, data |-> <<>>]
       ELSE LET stored == CHOOSE e \in found : TRUE
            IN IF t - stored.created_at > CHALLENGE_EXPIRY_MINUTES
               THEN [store |-> store \ found, data |-> <<>>]
               ELSE IF stored.type # challenge_type
               THEN [store |-> store \ found, data |-> <<>>]
               ELSE [store |-> store \ found, data |-> <<stored>>]

\* create_registration_options, create_authentication_options: a challenge
\* is stored
StoreChallenge(challenge, challenge_type) ==
    /\ _challenge_store' =
           store_challenge(_challenge_store, challenge, challenge_type, now)
    /\ resp' = [Resp("store_challenge", 0, AnyUser, NULL) EXCEPT
                  !.request = <<challenge, challenge_type>>]
    /\ UNCHANGED <<patients, next_patient_pk, patient_forms, next_form_pk, now,
                   audit_logs, session, org_vars, roles, users, in_flight>>

\* verify_registration, verify_authentication: the challenge of the client
\* is verified
VerifyChallenge(challenge, challenge_type) ==
    LET out == verify_and_consume_challenge(_challenge_store, challenge,
                                            challenge_type, now)
    IN /\ _challenge_store' = out.store
       /\ resp' = [Resp("verify_and_consume_challenge", 0, AnyUser, NULL) EXCEPT
                     !.request = <<challenge, challenge_type>>,
                     !.result = out.data]
       /\ UNCHANGED <<patients, next_patient_pk, patient_forms, next_form_pk,
                      now, audit_logs, session, org_vars, roles, users,
                      in_flight>>

\* a minute passes
Minute ==
    /\ now < MaxMinute
    /\ now' = now + 1
    /\ UNCHANGED <<patients, next_patient_pk, patient_forms, next_form_pk, resp,
                   audit_logs, session, org_vars, side_vars>>

NextChallenges ==
    \/ \E challenge \in Challenges, challenge_type \in ChallengeTypes :
          StoreChallenge(challenge, challenge_type)
    \/ \E challenge \in Challenges, challenge_type \in ChallengeTypes :
          VerifyChallenge(challenge, challenge_type)
    \/ Minute

SpecChallenges == Init /\ [][NextChallenges]_vars

\* ------------------------------------------------- two form creations at once
MaxWorkers == 2     \* requests served at the same time

Workers == 1..MaxWorkers

\* bodies of POST /patients/<id>/forms/ without a usable form_id: none, "abc"
FreshIdBodies ==
    {FormItem(RawNone, "intake", "a"), FormItem(RawNone, "assessment", "a"),
     FormItem(RawStr("abc", <<>>), "intake", "b")}

\* create_patient_form up to the insert, lines 174-239: the checks, and the
\* form_id read from the committed rows (max + 1); a request that is
\* refused answers at once
BeginCreatePatientForm(w, u, patient_id, data) ==
    /\ \A e \in in_flight : e.worker # w
    /\ IF \/ ~PatientExists(patient_id)
          \/ ~can_modify_patient(u, PatientById(patient_id))
          \/ data.form_type = ""
       THEN CreatePatientForm(u, patient_id, data)
       ELSE LET parsed == route_form_id_int(data.form_id)
                form_id_int == IF parsed.kind = "none"
                               THEN next_form_id(patient_forms, patient_id)
                               ELSE parsed
            IN /\ in_flight' = in_flight \cup
                     {[worker |-> w, user |-> u, patient_id |-> patient_id,
                       data |-> data, form_id_int |-> form_id_int]}
               /\ UNCHANGED <<patients, next_patient_pk, patient_forms,
                              next_form_pk, now, resp, audit_logs, session,
                              org_vars, roles, users, _challenge_store>>

\* create_patient_form from the insert on, lines 241-308: add, commit,
\* audit; the rollback when the INTEGER column rejects the value
CommitCreatePatientForm(w) ==
    /\ next_form_pk <= MaxFormPk
    /\ \E e \in in_flight :
         /\ e.worker = w
         /\ in_flight' = in_flight \ {e}
         /\ IF e.form_id_int.kind # "ok"
            THEN /\ resp' = [Resp("create_patient_form", 500, e.user, e.patient_id)
                               EXCEPT !.raw = e.data.form_id, !.items = <<e.data>>,
                                      !.error = CreateFormErrorText]
                 /\ audit_logs' = log_patient_form_access(e.user, "create", NULL,
                       e.patient_id, FALSE, DataErrorMessage)
                 /\ UNCHANGED <<patient_forms, next_form_pk>>
            ELSE /\ patient_forms' = Append(patient_forms,
                       PatientForm(next_form_pk, e.form_id_int.v, e.patient_id,
                                   e.data.form_type, e.data.form_data, now))
                 /\ next_form_pk' = next_form_pk + 1
                 /\ resp' = [Resp("create_patient_form", 201, e.user, e.patient_id)
                               EXCEPT !.raw = e.data.form_id,
                                      !.items = <<e.data>>,
                                      !.form_id = e.form_id_int.v]
                 /\ audit_logs' = log_patient_form_access(e.user,
                       IF RowsOfForm(patient_forms, e.patient_id,
                                     e.form_id_int.v) # {}
                       THEN "update" ELSE "create",
                       e.form_id_int.v, e.patient_id, TRUE, <<>>)
    /\ UNCHANGED <<patients, next_patient_pk, now, session, org_vars, roles,
                   users, _challenge_store>>

NextConcurrent ==
    \/ \E w \in Workers, u \in FormCallers, data \in FreshIdBodies :
          BeginCreatePatientForm(w, u, 1, data)
    \/ \E w \in Workers : CommitCreatePatientForm(w)

SpecConcurrent == InitBatch /\ [][NextConcurrent]_vars

\* ------------------------------------------------- form ids at the range ends

\* form ids at and beyond the ends of INTEGER: none, 2147483647,
\* 2147483648, -2147483648, -2147483649, "form-9999999999999"
RangeIds ==
    {RawNone,
     RawInt(FALSE, INTEGER_MAX_digits),
     RawInt(FALSE, <<2, 1, 4, 7, 4, 8, 3, 6, 4, 8>>),
     RawInt(TRUE, INTEGER_MIN_digits),
     RawInt(TRUE, <<2, 1, 4, 7, 4, 8, 3, 6, 4, 9>>),
     RawStr("form-", <<9, 9, 9, 9, 9, 9, 9, 9, 9, 9, 9, 9, 9>>)}

RangeItems ==
    {FormItem(RawNone, "intake", "a"),
     FormItem(RawInt(FALSE, INTEGER_MAX_digits), "assessment", "a"),
     FormItem(RawInt(TRUE, <<2, 1, 4, 7, 4, 8, 3, 6, 4, 9>>), "intake", "b")}

\* single creates, and PUT /patients/<id> with a forms array (batch save and
\* replace)
NextFormRange ==
    \/ \E u \in FormCallers, form_id \in RangeIds :
          CreatePatientForm(u, 1, FormItem(form_id, "intake", "a"))
    \/ \E u \in FormCallers, data \in FormsBodies(RangeItems) :
          UpdatePatient(u, 1, data)

SpecFormRange == InitBatch /\ [][NextFormRange]_vars

\* ------------------------------------------------- form store claims

\* the form id a submitted formId denotes: its integer value, for a string
\* the signed integer it spells or else its trailing digit run; none when
\* there is no such number or it lies outside the signed 32-bit range
SubmittedFormId(raw) ==
    IF raw.kind = "none" \/ raw.digits = <<>> THEN IdNone
    ELSE LET neg == IF raw.kind = "int" THEN raw.neg ELSE raw.pre = "-" IN
         IF neg
         THEN IF DigitsLeq(raw.digits, INTEGER_MIN_digits)
              THEN IdOk(NegDigitsValue(raw.digits, 0)) ELSE IdNone
         ELSE IF DigitsLeq(raw.digits, INTEGER_MAX_digits)
              THEN IdOk(DigitsValue(raw.digits, 0)) ELSE IdNone

\* the request of the last step was a patient update with a forms array
\* that went through
ReplacedForms(r) == r.op = "update_patient" /\ r.status = 200 /\ r.replace

TypesOf(items) == {item_type(items[i]) : i \in 1..Len(items)}
LastOfType(items, ty) ==
    items[SetMax({i \in 1..Len(items) : item_type(items[i]) = ty})]

\* C6: get_latest_forms returns exactly one row for each form_id that has
\* rows for the patient, that row is the most recently inserted one of its
\* form_id, and the result is ordered by created_at descending.
C6_LatestForms ==
    resp.op = "get_patient_forms" /\ resp.status = 200 /\ resp.replace
    => LET rows == RowsOfPatient(patient_forms, resp.patient_id)
           RowOf(pk) == CHOOSE r \in rows : r.id = pk
           n == Len(resp.result)
       IN /\ \A i \in 1..n : \E r \in rows : r.id = resp.result[i]
          /\ \A f \in {r.form_id : r \in rows} :
                Cardinality({i \in 1..n : RowOf(resp.result[i]).form_id = f}) = 1
          /\ \A i \in 1..n : \A q \in rows :
                q.form_id = RowOf(resp.result[i]).form_id => q.id <= resp.result[i]
          /\ \A i, j \in 1..n :
                i < j => RowOf(resp.result[i]).created_at
                           >= RowOf(resp.result[j]).created_at

\* C7: submitting a new version of a form never modifies or removes an
\* existing row: every earlier row of that (patient_id, form_id) is still
\* present and unchanged, and the submission has added a row of that form_id.
C7_AppendOnly ==
    [][ /\ (resp'.op \in {"create_patient_form", "update_patient_form"}
              /\ resp'.status \in {200, 201}
            => /\ \A r \in Rows(patient_forms) : r \in Rows(patient_forms')
               /\ \E r \in Rows(patient_forms') \ Rows(patient_forms) :
                     r.patient_id = resp'.patient_id /\ r.form_id = resp'.form_id)
        /\ (ReplacedForms(resp')
            => \A i \in 1..Len(resp'.items) :
                 LET f == SubmittedFormId(resp'.items[i].form_id) IN
                 f.kind = "ok" =>
                    \A r \in RowsOfForm(patient_forms, resp'.patient_id, f.v) :
                        r \in Rows(patient_forms'))
      ]_vars

ReplaceReadsId(raw) ==
    IF raw.kind = "none" \/ raw.digits = <<>> THEN IdNone
    ELSE IF raw.kind = "int" /\ raw.neg
    THEN IF DigitsLeq(raw.digits, INTEGER_MIN_digits)
         THEN IdOk(NegDigitsValue(raw.digits, 0)) ELSE IdNone
    ELSE IF DigitsLeq(raw.digits, INTEGER_MAX_digits)
         THEN IdOk(DigitsValue(raw.digits, 0)) ELSE IdNone

UnusableFormId(raw) ==
    \/ raw.kind = "none"
    \/ raw.digits = <<>>
    \/ IF (raw.kind = "int" /\ raw.neg) \/ (raw.kind = "str" /\ raw.pre = "-")
       THEN ~DigitsLeq(raw.digits, INTEGER_MIN_digits)
       ELSE ~DigitsLeq(raw.digits, INTEGER_MAX_digits)

\* C9: a submitted form whose form_id is absent, cannot be parsed or is
\* outside the signed 32-bit range is stored with the maximum form_id of the
\* patient plus 1, or 1 when the patient has no forms.
C9_FreshIdForUnusable ==
    [][ resp'.op = "create_patient_form" /\ resp'.status \in {201, 500}
          /\ UnusableFormId(resp'.raw)
        => LET ids == {r.form_id :
                         r \in RowsOfPatient(patient_forms, resp'.patient_id)}
               fresh == IF ids = {} THEN 1 ELSE SetMax(ids) + 1
           IN /\ resp'.status = 201
              /\ resp'.form_id = fresh
              /\ \E r \in Rows(patient_forms') \ Rows(patient_forms) :
                    r.patient_id = resp'.patient_id /\ r.form_id = fresh
      ]_vars

\* C10: when a batch holds several items of one form_type, exactly one row
\* is inserted for that type, with the form_id and form_data of the last
\* such item; the other types get their own row each.
C10_LastOfTypeWins ==
    [][ ReplacedForms(resp') =>
        LET items == resp'.items
            added == Rows(patient_forms') \ Rows(patient_forms)
        IN /\ Cardinality(added) = Cardinality(TypesOf(items))
           /\ \A ty \in TypesOf(items) :
                LET last == LastOfType(items, ty)
                    rows == {r \in added : r.form_type = ty}
                IN /\ Cardinality(rows) = 1
                   /\ \A r \in rows :
                        /\ r.patient_id = resp'.patient_id
                        /\ r.form_data = last.form_data
                        /\ SubmittedFormId(last.form_id).kind = "ok"
                             => r.form_id = SubmittedFormId(last.form_id).v
      ]_vars

\* a batch of two items of one type with different ids and data went
\* through and the table ends with the row of the second item
C10_Witness ==
    /\ ReplacedForms(resp)
    /\ Len(resp.items) = 2
    /\ item_type(resp.items[1]) = item_type(resp.items[2])
    /\ resp.items[1].form_data # resp.items[2].form_data
    /\ resp.items[1].form_id # resp.items[2].form_id
    /\ Len(patient_forms) >= 1
    /\ patient_forms[Len(patient_forms)].form_data = resp.items[2].form_data
    /\ \A r \in Rows(patient_forms) : r.form_data # resp.items[1].form_data

\* C11: deleting a form by identity removes every row of that (patient_id,
\* form_id), reports the number of rows removed and leaves every other row
\* unchanged; when no row has that identity it reports not-found and
\* changes nothing.
C11_DeleteByIdentity ==
    [][ resp'.op = "delete_patient_form" /\ resp'.status \in {200, 404}
          /\ PatientExists(resp'.patient_id)
          /\ can_modify_patient(resp'.user, PatientById(resp'.patient_id))
        => LET gone == RowsOfForm(patient_forms, resp'.patient_id, resp'.form_id) IN
           /\ Rows(patient_forms') = Rows(patient_forms) \ gone
           /\ IF gone = {}
              THEN resp'.status = 404 /\ patient_forms' = patient_forms
              ELSE resp'.status = 200 /\ resp'.result = Cardinality(gone)
      ]_vars

\* a delete removed the two versions of form 1 of patient 1 and left the
\* row of patient 2
C11_Witness ==
    /\ resp.op = "delete_patient_form" /\ resp.status = 200
    /\ resp.patient_id = 1 /\ resp.form_id = 1 /\ resp.result = 2
    /\ Len(patient_forms) = 1
    /\ patient_forms[1].patient_id = 2

\* a request that creates forms and carries one without a form type
MissingFormType(r) ==
    /\ r.op \in {"create_patient_form", "update_patient"}
    /\ \E i \in 1..Len(r.items) : r.items[i].form_type = ""

\* C12: a request that creates a form whose form_type is missing fails with
\* a validation error (400) and inserts no patient_forms row.
C12_MissingTypeRejected ==
    [][ MissingFormType(resp')
        => resp'.status = 400 /\ patient_forms' = patient_forms ]_vars

\* the forms array [{formData: a}] was saved: a row of type 'unknown'
C12_Violation ==
    /\ resp.op = "update_patient" /\ resp.status = 200
    /\ resp.items = <<FormItem(RawNone, "", "a")>>
    /\ \E i \in 1..Len(patient_forms) : patient_forms[i].form_type = "unknown"

\* C13: for a super_admin, admin or clinician with a home_health_id, every
\* facility filter_facilities_by_access selects has a hospital_id among the
\* hospitals linked to that agency, and none is selected when that set is
\* empty or the agency does not exist; a super_admin without home_health_id
\* gets every facility.
C13_HospitalScoped ==
    \A U \in Users :
      LET selected == filter_facilities_by_access(facilities, U) IN
      /\ U.role_name \in TenantRoles /\ U.home_health_id # NULL
         => /\ \A f \in selected :
                 /\ U.home_health_id \in home_health
                 /\ f.hospital_id \in hospital_ids(U.home_health_id)
            /\ (U.home_health_id \notin home_health
                  \/ hospital_ids(U.home_health_id) = {}) => selected = {}
      /\ U.role_name = "super_admin" /\ U.home_health_id = NULL
         => selected = facilities

\* C14: filter_facilities_by_access selects for a case_manager the facility
\* whose id is the user's facility_id and none when the user has no
\* facility_id, and selects none for a role outside the four or for an admin
\* or clinician without home_health_id.
C14_FacilityScoped ==
    \A U \in Users :
      LET selected == filter_facilities_by_access(facilities, U) IN
      /\ U.role_name = "case_manager"
         => selected = {f \in facilities :
                          U.facility_id # NULL /\ f.id = U.facility_id}
      /\ U.role_name = "guest" => selected = {}
      /\ U.role_name \in {"admin", "clinician"} /\ U.home_health_id = NULL
         => selected = {}

\* C15: log_action returns normally whatever it is given and whatever
\* fails while it builds or persists the audit record: no exception leaves
\* it.
C15_NeverRaises == resp.op = "log_action" => ~resp.log.raised

\* the commit of the audit record failed and log_action returned
C15_Witness ==
    /\ resp.op = "log_action" /\ resp.log.fault = "commit"
    /\ ~resp.log.raised /\ audit_logs = <<>>

\* C16: when log_action fails to persist its audit record, the caller's
\* uncommitted changes are still pending afterwards.
C16_CallerChangesKept ==
    [][ resp'.op = "log_action" /\ resp'.log.fault # "none"
        => session' = session ]_vars

\* t occurs in s
Contains(s, t) ==
    \E i \in 1..(Len(s) - Len(t) + 1) : SubSeq(s, i, i + Len(t) - 1) = t

\* john.doe@example.com, 555-123-4567, 1990-01-15, 123-45-6789
PhiExamples ==
    {<<"j", "o", "h", "n", ".", "d", "o", "e", "@", "e", "x", "a", "m", "p",
       "l", "e", ".", "c", "o", "m">>,
     <<"5", "5", "5", "-", "1", "2", "3", "-", "4", "5", "6", "7">>,
     <<"1", "9", "9", "0", "-", "0", "1", "-", "1", "5">>,
     <<"1", "2", "3", "-", "4", "5", "-", "6", "7", "8", "9">>}

\* C17: the error_message log_action stores contains no email address,
\* phone number, date or SSN of its input: of john.doe@example.com,
\* 555-123-4567, 1990-01-15 and 123-45-6789, none that is in the input is
\* in the stored text.
C17_PhiRedacted ==
    resp.op = "log_action" /\ audit_logs # <<>>
    => \A t \in PhiExamples :
         Contains(resp.log.error_message, t)
           => ~Contains(audit_logs[1].error_message, t)

\* C18: the error_message log_action stores is never longer than 500
\* characters.
C18_MessageBounded ==
    resp.op = "log_action" /\ audit_logs # <<>>
    => Len(audit_logs[1].error_message) <= ERROR_MESSAGE_LIMIT

\* the requests of the patient routes and of the patient-form routes that
\* an access-scoping check guards
ScopedOps ==
    {"get_patient", "create_patient", "update_patient", "delete_patient",
     "get_patient_forms", "create_patient_form", "update_patient_form",
     "delete_patient_form"}

\* C19: every request that an access-scoping check refuses (403) leaves an
\* audit record of action access_denied with success = false, on the
\* patient routes as on the patient-form routes.
C19_DenialAudited ==
    resp.op \in ScopedOps /\ resp.status = 403
    => \E i \in 1..Len(audit_logs) :
         /\ audit_logs[i].action = "access_denied"
         /\ ~audit_logs[i].success

\* C20: every patient read, create and update that a patient route
\* completes is followed by an audit record of resource_type patient with
\* the patient's id, the matching action and success = true.
C20_PatientAccessAudited ==
    \A op \in {"read", "create", "update"} :
      /\ resp.op = (CASE op = "read" -> "get_patient"
                      [] op = "create" -> "create_patient"
                      [] op = "update" -> "update_patient")
      /\ resp.status \in {200, 201}
      => \E i \in 1..Len(audit_logs) :
           /\ audit_logs[i].resource_type = "patient"
           /\ audit_logs[i].resource_id = resp.patient_id
           /\ audit_logs[i].action = op
           /\ audit_logs[i].success

\* the requests that write
WritingOps ==
    {"create_patient", "update_patient", "delete_patient",
     "create_patient_form", "update_patient_form", "delete_patient_form"}

\* C21: a request that is rejected for a validation failure (400) or an
\* authorization failure (403), and so every writing request of a role
\* that may not write, leaves patients, patient_forms and facilities as
\* they were.
C21_RejectionKeepsState ==
    [][ /\ resp'.op \in WritingOps
        /\ \/ resp'.status \in {400, 403}
           \/ resp'.user.role_name \notin TenantRoles
        => /\ patients' = patients
           /\ patient_forms' = patient_forms
           /\ facilities' = facilities ]_vars

\* a form without formType was refused while the patient had a form
C21_Witness ==
    /\ resp.op = "create_patient_form" /\ resp.status = 400
    /\ patients # {} /\ Len(patient_forms) = 1

\* C22: no error response carries the text of a database or driver
\* exception: the 'error' of a 500 is a fixed message.
C22_NoRawErrorText ==
    resp.status = 500
    => resp.error \notin {DataErrorText, NotNullErrorText}

\* C23: the role seed leaves exactly the four roles super_admin = 1,
\* admin = 2, clinician = 3 and case_manager = 4, no name and no id twice,
\* and a seed that follows a seed changes no role row.
C23_SeedIdempotent ==
    [][ resp'.op = "seed_roles"
        => /\ {<<r.id, r.name>> : r \in roles'}
                = {<<1, "super_admin">>, <<2, "admin">>,
                   <<3, "clinician">>, <<4, "case_manager">>}
           /\ Cardinality(roles') = 4
           /\ resp.op = "seed_roles" => roles' = roles ]_vars

\* a seed found the four roles in place while users hold roles
C23_Witness ==
    /\ resp.op = "seed_roles" /\ resp.result = <<0, 0, 4>>
    /\ \E u \in users : u.role_id = 3

\* C24: across the calls of Facility.get_or_create for one name the
\* hospital_id of the facility changes at most once: a hospital_id that is
\* not null is never changed, and a null one is filled in by the first call
\* that supplies one.
C24_HospitalSetOnce ==
    [][ /\ \A f \in facilities : f.hospital_id # NULL => f \in facilities'
        /\ resp'.op = "get_or_create"
           => LET name == resp'.request[1]
                  hospital_id == resp'.request[2]
              IN hospital_id # NULL /\ Facility(name, NULL) \in facilities
                 => Facility(name, hospital_id) \in facilities' ]_vars

\* a call supplied another hospital for a facility that has one
C24_Witness ==
    /\ resp.op = "get_or_create"
    /\ \E f \in facilities :
         /\ f.id = resp.request[1]
         /\ f.hospital_id # NULL
         /\ resp.request[2] \notin {NULL, f.hospital_id}

\* the hospitals the claimed order allows: the hospital_id of the request
\* when a hospital has it, else the hospital of the name, else that of the
\* user's facility, else one linked to the user's home health, else none
ExpectedHospitals(user, hospital_id, hospitalName) ==
    LET of_facility == {f.hospital_id : f \in {g \in facilities :
                            g.id = user.facility_id /\ user.facility_id # NULL}}
                       \ {NULL}
        linked == IF user.home_health_id = NULL THEN {}
                  ELSE {l[2] : l \in {x \in home_health_hospitals :
                                         x[1] = user.home_health_id}}
    IN IF hospital_id.kind = "int" /\ hospital_id.v \in 1..MaxHospital
       THEN {hospital_id.v}
       ELSE IF hospitalName.kind = "name" /\ hospitalName.v \in 1..MaxHospital
       THEN {hospitalName.v}
       ELSE IF of_facility # {} THEN of_facility
       ELSE IF linked # {} THEN linked
       ELSE {NULL}

\* C25: the hospital a new patient's facility is created or filled in with
\* is the first match of: the request's hospital_id if a hospital has it,
\* the hospital of the request's hospital name, the hospital of the
\* creating user's facility, a hospital linked to the user's home health,
\* none; a hospital_id of the request that no hospital has is never it.
C25_HospitalPriority ==
    [][ resp'.op = "create_patient" /\ resp'.status = 201
        => LET P == CHOOSE p \in patients' : p.id = resp'.patient_id
               name == P.facility_id
               expected == ExpectedHospitals(resp'.user, resp'.request[1],
                                             resp'.request[2])
           IN /\ (\A f \in facilities : f.id = name => f.hospital_id = NULL)
                 => \E h \in expected : Facility(name, h) \in facilities'
              /\ Facility(name, MaxHospital + 1) \notin facilities' ]_vars

\* a patient was created with a hospital_id no hospital has, by a user
\* whose home health is linked to a hospital, and the facility got that one
C25_Witness ==
    /\ resp.op = "create_patient" /\ resp.status = 201
    /\ resp.request[1] = IntField(MaxHospital + 1)
    /\ resp.request[2] = HospitalName(MaxHospital + 1)
    /\ resp.user.facility_id = NULL
    /\ \E p \in patients, l \in home_health_hospitals :
         /\ p.id = resp.patient_id
         /\ l[1] = resp.user.home_health_id
         /\ Facility(p.facility_id, l[2]) \in facilities

C27_ChallengeOnce ==
    [][ resp'.op = "verify_and_consume_challenge" /\ now' = now
        => LET challenge == resp'.request[1]
               challenge_type == resp'.request[2]
           IN /\ \A e \in _challenge_store' : e.challenge # challenge
              /\ resp'.result # <<>>
                 => \E e \in _challenge_store :
                      /\ e.challenge = challenge
                      /\ e.type = challenge_type
                      /\ now - e.created_at <= 5 ]_vars

\* a challenge was accepted five minutes after it was stored
C27_Witness ==
    /\ resp.op = "verify_and_consume_challenge"
    /\ resp.result # <<>>
    /\ now - resp.result[1].created_at = 5

\* C28: two requests that create a form for one patient at the same time,
\* neither with a usable form_id, are given different form_ids: no two rows
\* of a patient share a form_id when every row was created without one.
C28_ConcurrentFreshIds ==
    \A i, j \in 1..Len(patient_forms) :
       /\ i < j
       /\ patient_forms[i].patient_id = patient_forms[j].patient_id
       => patient_forms[i].form_id # patient_forms[j].form_id

C30_UpdateKeepsTenant ==
    /\ resp.op = "update_patient" /\ resp.status = 200
    /\ resp.user.role_name \in TenantRoles
    /\ resp.user.home_health_id # NULL
    => \A p \in patients :
          p.id = resp.patient_id => p.home_health_id = resp.user.home_health_id

====
